---- MODULE Spec2Model ----
(***************************************************************************)
(* A model of the nox HTTP server core: the plugin manager and its hook    *)
(* dispatcher (plugins/manager.rs), the request pipeline of                *)
(* Server::handle_request / handle_connection (server/core.rs) and the     *)
(* priority router (server/router.rs).                                     *)
(*                                                                         *)
(* Spec        the server lifecycle and the request pipeline, with plugin  *)
(*             registration and enabling interleaved between the stages.   *)
(* SpecRouter  the route table under add_route and find_route.             *)
(***************************************************************************)
EXTENDS Integers, Sequences, FiniteSets, TLC

VARIABLES
    \* PluginManager (plugins/manager.rs)
    plugins,          \* name -> the plugin object registered last under it
    hook_plugins,     \* hook -> sequence of (name, priority), with the number
                      \* of the register_plugin call that pushed the entry
    enabled_plugins,  \* name -> BOOLEAN, a partial map (the side table)
    \* Router (server/router.rs)
    routes,           \* sequence of route entries, kept sorted by priority
    \* Server lifecycle and the request in flight (server/core.rs)
    pc,               \* position of the server / of handle_request
    exec,             \* the hook execution holding the plugin manager's read lock
    request,          \* [method, path] of the request in flight
    context,          \* PluginContext: [hook, route_params]
    route_match,      \* Option<RouteMatch> found by route resolution
    response,         \* the local `response` of handle_request
    result,           \* what handle_request returned: Ok(response) or Err(e)
    sent,             \* the response the connection layer wrote to the client
    \* Router call results (SpecRouter)
    add_result,       \* what the last add_route returned
    find_result,      \* what the last find_route since the last add_route returned,
                      \* with the request it served
    \* History of the request in flight (observations, read by no guard)
    stages,           \* the pipeline stages begun, in order
    invoked,          \* the plugins invoked in the current hook execution, in order
    results,          \* the PluginResult each of them returned
    stopSeen,         \* the first hook of this request in which a plugin returned Stop
    nreg,             \* number of register_plugin calls made
    \* ProxyHandler (handlers/proxy.rs)
    config,           \* ProxyConfig: [enabled, retry_attempts]
    upstreams,        \* sequence of Upstream: [health_check, healthy, request_count]
    current_upstream, \* the round-robin counter
    hpc,              \* position of handle / handle_with_retry
    proxy_request,    \* the request handle was called with: [method, headers]
    attempt,          \* the loop variable of handle_with_retry
    last_error,       \* its local last_error
    upstream,         \* index of the upstream selected for this attempt, 0 if none
    upstream_request, \* the request sent to the upstream by the last forward_request
    handler_result,   \* what handle returned
    \* History of the proxied request (observations, read by no guard)
    selects,          \* select_upstream calls made for this request
    forwards,         \* forward_request calls made for this request
    sleeps,           \* backoff delays taken for this request
    observed,         \* the error of the last failed forward_request of this request
    picks,            \* upstream index -> selections since the last health change
    last_picks,       \* the last two selections since the last health change
    \* The accept loop and the connection tasks (server/core.rs, SpecConn)
    accept_loop,      \* position of the loop of Server::start
    accept_errors,    \* accept() failures the loop has logged
    conns,            \* connection -> its task: [task, served, failures, result, reply]
    \* SessionManager and its store (session/mod.rs, memory.rs, file.rs)
    timeout,          \* SessionManager.timeout, in ticks of the clock
    store_kind,       \* which SessionStore the manager owns: "memory" or "file"
    sessions,         \* the store's map: id -> Session
    file,             \* FileSessionStore: the sessions file, None while there is none
    dirty,            \* FileSessionStore.dirty
    now,              \* SystemTime::now()
    pending,          \* the get_session call in flight: the id and what store.get gave
    \* History of the session calls (observations, read by no guard)
    fresh,            \* the session create_session returned, until anything else happens
    got,              \* the get_session call that has just returned
    swept,            \* the cleanup_expired call that has just returned
    \* The process around the server (main.rs, cli/mod.rs, SpecShutdown)
    entry_point,      \* the function that runs the server: start_server or start_foreground
    mpc,              \* its position
    shutdown_runs,    \* executions of the OnShutdown hook
    inflight,         \* the requests in flight when the shutdown signal arrived
    \* BasicAuthProvider (plugins/auth/basic.rs, SpecAuth)
    users,            \* username -> password
    auth_request,     \* the request authenticate was called with last
    auth_result,      \* the AuthResult it returned
    \* The tasks that share the Router's RwLock (server/router.rs, SpecRouterLock)
    rwlock,           \* RwLock state: [writer, readers]
    adder,            \* the add_route call in flight: its position and its entry
    finder,           \* task -> the find_route call it has in flight
    \* select_upstream on its own (handlers/proxy.rs, SpecSelect)
    strategy,         \* ProxyHandler.strategy
    selection,        \* the last select_upstream call: the flags it read and its result
    \* The task start_health_checks spawns (handlers/proxy.rs, SpecHealth)
    health_task,      \* its position, and what it has seen and done in this round
    \* The calls in flight on a FileSessionStore (session/file.rs, SpecFile)
    store_task,       \* task -> its call, its position in it and its locals
    store_readers,    \* the tasks that hold the read lock of the sessions map
    \* RouterBuilder (server/router.rs, SpecBuilder)
    builder,          \* the builder's routes, how far build_into has come, its result
    \* MockRouter (src/router.rs, SpecMock)
    mock_routes,      \* MockRouter.routes
    mock_reply        \* the last request handled and its response

pmVars == <<plugins, hook_plugins, enabled_plugins>>
reqVars == <<pc, exec, request, context, route_match, response, result, sent>>
histVars == <<stages, invoked, results, stopSeen>>
routerVars == <<routes, add_result, find_result>>
proxyVars == <<config, upstreams, current_upstream, hpc, proxy_request, attempt, last_error,
               upstream, upstream_request, handler_result>>
proxyHist == <<selects, forwards, sleeps, observed, picks, last_picks>>
connVars == <<accept_loop, accept_errors, conns>>
sessVars == <<timeout, store_kind, sessions, file, dirty, now, pending>>
sessHist == <<fresh, got, swept>>
\* What the server core, the router and the proxy leave alone.
shutVars == <<entry_point, mpc, shutdown_runs, inflight>>
authVars == <<users, auth_request, auth_result>>
lockVars == <<rwlock, adder, finder>>
selVars == <<strategy, selection>>
healthVars == <<health_task>>
fileVars == <<store_task, store_readers>>
buildVars == <<builder>>
mockVars == <<mock_routes, mock_reply>>
lateVars == <<healthVars, fileVars, buildVars, mockVars>>
oldExt == <<sessVars, sessHist, shutVars, authVars, lockVars, selVars>>
extVars == <<oldExt, lateVars>>
notHealth == <<oldExt, fileVars, buildVars, mockVars>>
notFile == <<timeout, store_kind, now, pending, sessHist, shutVars, authVars, lockVars, selVars,
             healthVars, buildVars, mockVars>>
notBuild == <<oldExt, healthVars, fileVars, mockVars>>
notMock == <<oldExt, healthVars, fileVars, buildVars>>
coreVars == <<pmVars, routerVars, reqVars, histVars, nreg, proxyVars, proxyHist, connVars>>
\* What the session manager leaves alone besides the core, and what the
\* process around the server does.
notSess == <<shutVars, authVars, lockVars, selVars, lateVars>>
notShut == <<sessVars, sessHist, authVars, lockVars, selVars, lateVars>>
notAuth == <<sessVars, sessHist, shutVars, lockVars, selVars, lateVars>>
notLock == <<sessVars, sessHist, shutVars, authVars, selVars, lateVars>>
notSel == <<sessVars, sessHist, shutVars, authVars, lockVars, lateVars>>
vars == <<pmVars, routerVars, reqVars, histVars, nreg, proxyVars, proxyHist, connVars, extVars>>

(***************************************************************************)
(* Bounds and input sets                                                   *)
(***************************************************************************)
MaxPlugins == 2
MaxRoutes == 3

Names == {"a", "b"}
Priorities == {10, 50}

LifecycleHooks == {"OnStartup", "OnShutdown"}
RequestHooks == {"PreRequest", "PostRoute", "PreHandler",
                 "PostHandler", "PreResponse", "PostResponse"}
PluginHook == LifecycleHooks \cup RequestHooks \cup {"OnError"}

\* handles_hook of the plugins that get registered: one that subscribes to
\* every hook, and the hook set of the health plugin.
HookSets == {PluginHook, {"PreHandler", "PostResponse", "OnError"}}

\* The plugins that get registered: under either name and priority one that
\* subscribes to every hook, and the health plugin with its priority of 10.
PluginObjects ==
    [name : Names, priority : Priorities, hooks : {PluginHook}]
    \cup [name : {"b"}, priority : {10}, hooks : HookSets \ {PluginHook}]

\* What a plugin callback can yield: Ok(PluginResult::*) or Err(e) ("Err").
PluginResult == {"Continue", "Stop", "Error", "Response", "Err"}
\* What Handler::handle can yield: Ok(HandlerResult::*) or Err(e) ("Err").
HandlerResult == {"Response", "NotFound", "Error", "Err"}

Methods == {"GET", "POST"}

(***************************************************************************)
(* Values                                                                  *)
(***************************************************************************)
None == [tag |-> "none"]
NoExec == [hook |-> "none", idx |-> 0, live |-> FALSE]

\* A response is told by where it was built; it carries its status, its
\* body, and whether a plugin callback has rewritten it in place.
PluginResponse(h, n) == [src |-> "plugin", hook |-> h, name |-> n]
HandlerResponse == [src |-> "handler", hook |-> "-", name |-> "-",
                    status |-> 200, body |-> "handler", touched |-> FALSE]
\* What post_handler and pre_response can do through `&mut Response`.
Edited(r) == [r EXCEPT !.status = 200, !.body = "plugin", !.touched = TRUE]

\* Where an error comes from, and the error: its origin and its variant.
PluginError(h, n) == [src |-> "plugin", hook |-> h, name |-> n]
HandlerError == [src |-> "handler", hook |-> "-", name |-> "-"]
Raised(origin, kind) ==
    [src |-> origin.src, hook |-> origin.hook, name |-> origin.name, kind |-> kind]
Origin(e) == [src |-> e.src, hook |-> e.hook, name |-> e.name]

\* The variants of ServerError that to_status_code names, and two of the
\* others.
MappedKinds == {"NotFound", "BadRequest", "Unauthorized", "Forbidden", "Timeout",
                "ServiceUnavailable", "Auth"}
ErrorKinds == MappedKinds \cup {"Plugin", "Handler"}
\* The variants the plugins and handlers of the pipeline raise.
PipelineKinds == {"Unauthorized", "Handler"}

\* A mapping that leaves Auth to the catch-all arm.
to_status_code_NoAuth(kind) ==
    CASE kind = "NotFound" -> 404
      [] kind = "BadRequest" -> 400
      [] kind \in {"Unauthorized"} -> 401
      [] kind = "Forbidden" -> 403
      [] kind = "Timeout" -> 408
      [] kind = "ServiceUnavailable" -> 503
      [] OTHER -> 500

to_status_code(kind) ==
    CASE kind = "NotFound" -> 404
      [] kind = "BadRequest" -> 400
      [] kind = "Unauthorized" -> 401
      [] kind = "Forbidden" -> 403
      [] kind = "Timeout" -> 408
      [] kind = "ServiceUnavailable" -> 503
      [] kind = "Auth" -> 401
      [] OTHER -> 500

\* The JSON body {"error": {"message": ..., "status": ...}}.
ErrorBody(message, status) == [message |-> message, status |-> status]

Ok(r) == [tag |-> "ok", resp |-> r]
Err(e) == [tag |-> "err", err |-> e]

\* A built-in response for the unrouted request that is not a 404.
create_not_found_response_500 ==
    [src |-> "notfound", hook |-> "-", name |-> "-",
     status |-> 500, body |-> ErrorBody("Not Found", 500), touched |-> FALSE]

create_not_found_response ==
    [src |-> "notfound", hook |-> "-", name |-> "-",
     status |-> 404, body |-> ErrorBody("Not Found", 404), touched |-> FALSE]
create_error_response(e) ==
    [src |-> "error", hook |-> e.hook, name |-> e.name, from |-> e.src,
     status |-> to_status_code(e.kind),
     body |-> ErrorBody(e.kind, to_status_code(e.kind))]

(***************************************************************************)
(* PluginManager                                                           *)
(***************************************************************************)
\* A sort that is not stable: an element goes before the elements of equal
\* key already placed.
RECURSIVE InsertByKey_Unstable(_, _)
InsertByKey_Unstable(e, s) ==
    IF s = <<>> THEN <<e>>
    ELSE IF s[Len(s)].priority < e.priority THEN Append(s, e)
    ELSE Append(InsertByKey_Unstable(e, SubSeq(s, 1, Len(s) - 1)), s[Len(s)])

\* Vec::sort_by_key is a stable sort: an insertion sort that places each
\* element after the elements of equal key already placed.
RECURSIVE InsertByKey(_, _)
InsertByKey(e, s) ==
    IF s = <<>> THEN <<e>>
    ELSE IF s[Len(s)].priority <= e.priority THEN Append(s, e)
    ELSE Append(InsertByKey(e, SubSeq(s, 1, Len(s) - 1)), s[Len(s)])

RECURSIVE sort_by_key(_)
sort_by_key(s) ==
    IF s = <<>> THEN <<>>
    ELSE InsertByKey(s[Len(s)], sort_by_key(SubSeq(s, 1, Len(s) - 1)))

\* The loop body of register_plugin for one hook.
RegisterForHook(list, p, hook) ==
    IF hook \in p.hooks
    THEN sort_by_key(Append(list, [name |-> p.name, priority |-> p.priority, reg |-> nreg + 1]))
    ELSE list

\* A lookup that takes every plugin as enabled.
is_plugin_enabled_Always(name) == TRUE

is_plugin_enabled(name) ==
    IF name \in DOMAIN enabled_plugins THEN enabled_plugins[name] ELSE FALSE

MapInsert(m, k, v) == [x \in DOMAIN m \cup {k} |-> IF x = k THEN v ELSE m[x]]

\* register_plugin and set_plugin_enabled take the write lock of the plugin
\* manager, which no hook execution may hold.  Their callers make them while
\* the server is set up or serving, not between a reply and the wait for the
\* next request, nor after the server has stopped.
LockFree == exec = NoExec /\ pc \notin {"sent", "stopped", "failed"}

RegisterPlugin(p) ==
    /\ LockFree
    /\ nreg < MaxPlugins
    /\ hook_plugins' = [h \in PluginHook |-> RegisterForHook(hook_plugins[h], p, h)]
    /\ enabled_plugins' = MapInsert(enabled_plugins, p.name, TRUE)
    /\ plugins' = MapInsert(plugins, p.name, p)
    /\ nreg' = nreg + 1
    /\ UNCHANGED <<extVars, connVars, proxyVars, proxyHist, routerVars, reqVars, histVars>>

\* Server gives no access to set_plugin_enabled: it is the owner of a
\* PluginManager that calls it, here while no request is in flight.
SetPluginEnabled(name, enabled) ==
    /\ LockFree
    /\ pc \in {"new", "listening"}
    /\ name \in DOMAIN plugins
    /\ enabled_plugins' = MapInsert(enabled_plugins, name, enabled)
    /\ UNCHANGED <<extVars, connVars, proxyVars, proxyHist, plugins, hook_plugins, routerVars, reqVars, histVars, nreg>>

\* Which dispatcher function runs a hook.
Executor(hook) ==
    CASE hook \in {"OnStartup", "OnShutdown", "PostResponse"} -> "execute_hook_simple"
      [] hook \in {"PostRoute", "PreHandler", "OnError"} -> "execute_hook_simple_with_response"
      [] hook = "PreRequest" -> "execute_hook_with_request"
      [] hook = "PostHandler" -> "execute_post_handler"
      [] hook = "PreResponse" -> "execute_pre_response"

\* Dispatcher loops that differ from the code in one arm of the match.
Interpret_ResponseDropped(executor, res) ==
    CASE res = "Continue" -> "continue"
      [] res = "Stop" -> "break"
      [] res \in {"Error", "Err"} -> "error"
      [] res = "Response" -> "continue"

Interpret_ResponseReturned(executor, res) ==
    CASE res = "Continue" -> "continue"
      [] res = "Stop" -> "break"
      [] res \in {"Error", "Err"} -> "error"
      [] res = "Response" ->
            IF executor \in {"execute_hook_simple_with_response", "execute_hook_with_request",
                             "execute_post_handler"}
            THEN "response"
            ELSE "continue"

Interpret_StopContinues(executor, res) ==
    CASE res \in {"Continue", "Stop"} -> "continue"
      [] res \in {"Error", "Err"} -> "error"
      [] res = "Response" ->
            IF executor \in {"execute_hook_simple_with_response", "execute_hook_with_request"}
            THEN "response"
            ELSE "continue"

Interpret_StopAborts(executor, res) ==
    CASE res = "Continue" -> "continue"
      [] res \in {"Stop", "Error", "Err"} -> "error"
      [] res = "Response" ->
            IF executor \in {"execute_hook_simple_with_response", "execute_hook_with_request"}
            THEN "response"
            ELSE "continue"

Interpret_ErrorSwallowed(executor, res) ==
    CASE res \in {"Continue", "Error"} -> "continue"
      [] res = "Stop" -> "break"
      [] res = "Err" -> "error"
      [] res = "Response" ->
            IF executor \in {"execute_hook_simple_with_response", "execute_hook_with_request"}
            THEN "response"
            ELSE "continue"

\* The match on the callback's result in the five dispatcher loops:
\* "continue", "break", "error" (return Err(e)) or "response" (return Ok(Some(r))).
Interpret(executor, res) ==
    CASE res = "Continue" -> "continue"
      [] res = "Stop" -> "break"
      [] res \in {"Error", "Err"} -> "error"
      [] res = "Response" ->
            IF executor \in {"execute_hook_simple_with_response", "execute_hook_with_request"}
            THEN "response"
            ELSE "continue"

(***************************************************************************)
(* Router                                                                  *)
(*                                                                         *)
(* A request path is the sequence of its segments: /users/42 is            *)
(* <<"users", "42">> and /users/ is <<"users", "">>.  A route's path       *)
(* pattern is a sequence of pattern segments, a literal or a {param}.      *)
(* A regular expression is [valid, start, end, segs]: whether it compiles, *)
(* whether it is anchored with ^ and with $, and the segments it matches:  *)
(* a literal, or a named group (?P<name>[^/]+).                            *)
(***************************************************************************)
Lit(t) == [kind |-> "lit", text |-> t]
Param(n) == [kind |-> "param", text |-> n]

Paths == {<<"users", "42">>, <<"users", "7">>, <<"users", "">>,
          <<"users", "42", "extra">>, <<"api", "users", "42">>}
Requests == [method : Methods, path : Paths]

NoRegex == [valid |-> TRUE, start |-> FALSE, end |-> FALSE, segs |-> <<>>, tag |-> "none"]
Regex(start, end, segs) ==
    [valid |-> TRUE, start |-> start, end |-> end, segs |-> segs, tag |-> "regex"]
\* A pattern Regex::new rejects, such as "(".
BadRegex == [valid |-> FALSE, start |-> FALSE, end |-> FALSE, segs |-> <<>>, tag |-> "regex"]

ParamNames(segs) == {segs[i].text : i \in {j \in 1..Len(segs) : segs[j].kind = "param"}}
NumParams(segs) == Cardinality({j \in 1..Len(segs) : segs[j].kind = "param"})

\* A translation that leaves the end of the pattern open.
path_to_regex_Unanchored(path) ==
    IF NumParams(path) = Cardinality(ParamNames(path))
    THEN Regex(TRUE, FALSE, path)
    ELSE BadRegex

\* path_to_regex: every {param} becomes (?P<param>[^/]+), the rest is escaped,
\* and the pattern is anchored.  Regex::new rejects a group name used twice.
path_to_regex(path) ==
    IF NumParams(path) = Cardinality(ParamNames(path))
    THEN Regex(TRUE, TRUE, path)
    ELSE BadRegex

contains_brace(path) == \E i \in 1..Len(path) : path[i].kind = "param"

\* The regex add_route compiles for a route: lines 87-94.
CompileRoute(route) ==
    IF route.path_regex.tag # "none" THEN route.path_regex
    ELSE IF contains_brace(route.path) THEN path_to_regex(route.path)
    ELSE NoRegex

SegMatches(seg, s) == IF seg.kind = "lit" THEN seg.text = s ELSE s # ""

\* Whether the regex matches the path with its first segment at offset k.
MatchesAt(regex, path, k) ==
    /\ k + Len(regex.segs) <= Len(path)
    /\ regex.start => k = 0
    /\ regex.end => k + Len(regex.segs) = Len(path)
    /\ \A i \in 1..Len(regex.segs) : SegMatches(regex.segs[i], path[k + i])

MatchOffsets(regex, path) == {k \in 0..Len(path) : MatchesAt(regex, path, k)}

\* Regex::captures reports the leftmost match; matches_regex collects its
\* named groups.
matches_regex(regex, path) ==
    IF MatchOffsets(regex, path) = {}
    THEN [matches |-> FALSE, params |-> <<>>]
    ELSE LET k == CHOOSE k \in MatchOffsets(regex, path) :
                      \A j \in MatchOffsets(regex, path) : k <= j
         IN [matches |-> TRUE,
             params |-> [n \in ParamNames(regex.segs) |->
                            path[k + (CHOOSE i \in 1..Len(regex.segs) :
                                        regex.segs[i] = Param(n))]]]

\* A literal route pattern as the string it is compared with.
LiteralPath(pattern) == [i \in 1..Len(pattern) |-> pattern[i].text]

MethodMatches(entry, req) == entry.method = "ANY" \/ entry.method = req.method

\* The path check of find_route for one entry: lines 120-124.
PathMatch(entry, req) ==
    IF entry.regex.tag # "none"
    THEN matches_regex(entry.regex, req.path)
    ELSE [matches |-> LiteralPath(entry.path) = req.path, params |-> <<>>]

\* find_route: the first entry, in table order, whose method and path match.
RECURSIVE FindFrom(_, _, _)
FindFrom(table, req, i) ==
    IF i > Len(table) THEN None
    ELSE IF MethodMatches(table[i], req) /\ PathMatch(table[i], req).matches
         THEN [tag |-> "some", route |-> table[i], params |-> PathMatch(table[i], req).params]
         ELSE FindFrom(table, req, i + 1)

\* A lookup that returns the last matching entry instead of the first.
find_route_LastMatch(table, req) ==
    LET hits == {i \in 1..Len(table) :
                    MethodMatches(table[i], req) /\ PathMatch(table[i], req).matches}
    IN IF hits = {} THEN None
       ELSE LET i == CHOOSE i \in hits : \A j \in hits : j <= i
            IN [tag |-> "some", route |-> table[i], params |-> PathMatch(table[i], req).params]

find_route(table, req) == FindFrom(table, req, 1)

\* A registration that pushes the route although its pattern did not compile.
add_route_Partial(table, route, id) ==
    [result |-> IF CompileRoute(route).valid THEN "ok" ELSE "err",
     routes |-> sort_by_key(Append(table,
         [method |-> route.method, path |-> route.path,
          path_regex |-> route.path_regex, priority |-> route.priority,
          regex |-> IF CompileRoute(route).valid THEN CompileRoute(route) ELSE NoRegex,
          id |-> id]))]

\* add_route on a table: the entry pushed carries the route, its compiled
\* regex and id, its number among the routes registered (the identity of
\* its handler).
add_route(table, route, id) ==
    IF ~CompileRoute(route).valid
    THEN [result |-> "err", routes |-> table]
    ELSE [result |-> "ok",
          routes |-> sort_by_key(Append(table,
              [method |-> route.method, path |-> route.path,
               path_regex |-> route.path_regex, priority |-> route.priority,
               regex |-> CompileRoute(route), id |-> id]))]

(***************************************************************************)
(* Server: lifecycle, handle_request and handle_connection                 *)
(***************************************************************************)
\* The stages of handle_request in the order of its code.
Pipeline == <<"PreRequest", "route", "PostRoute", "PreHandler", "handler",
              "PostHandler", "PreResponse", "PostResponse">>

StageIndex(s) == CHOOSE i \in 1..Len(Pipeline) : Pipeline[i] = s

\* A pipeline that goes from PostHandler straight to PostResponse.
NextStage_SkipsPreResponse(s) ==
    CASE s = "OnStartup" -> "listening"
      [] s = "OnShutdown" -> "stopped"
      [] s = "PostHandler" -> "PostResponse"
      [] OTHER -> IF StageIndex(s) = Len(Pipeline) THEN "returned"
                  ELSE Pipeline[StageIndex(s) + 1]

\* Where control goes when a stage completes without returning.
NextStage(s) ==
    CASE s = "OnStartup" -> "listening"
      [] s = "OnShutdown" -> "stopped"
      [] OTHER -> IF StageIndex(s) = Len(Pipeline) THEN "returned"
                  ELSE Pipeline[StageIndex(s) + 1]

\* Where control goes when a hook execution returns Err(e): start() and
\* shutdown() return it, handle_request returns it to handle_connection.
ErrorTarget(hook) ==
    CASE hook = "OnStartup" -> "failed"
      [] hook = "OnShutdown" -> "stopped"
      [] OTHER -> "returned"

from_request(hook, req) == [hook |-> hook, route_params |-> <<>>]
NewContext(hook) == [hook |-> hook, route_params |-> <<>>]

ResetHistory ==
    /\ stages' = <<>>
    /\ invoked' = <<>>
    /\ results' = <<>>
    /\ stopSeen' = "none"

\* Server::start up to the OnStartup hook.
Start ==
    /\ pc = "new"
    /\ pc' = "OnStartup"
    /\ context' = NewContext("OnStartup")
    /\ ResetHistory
    /\ UNCHANGED <<extVars, connVars, proxyVars, proxyHist, pmVars, routerVars, exec, request, route_match, response, result, sent, nreg>>

\* Server::shutdown up to the OnShutdown hook.
Shutdown ==
    /\ pc = "listening"
    /\ pc' = "OnShutdown"
    /\ context' = NewContext("OnShutdown")
    /\ ResetHistory
    /\ UNCHANGED <<extVars, connVars, proxyVars, proxyHist, pmVars, routerVars, exec, request, route_match, response, result, sent, nreg>>

\* The service closure of handle_connection takes a request and calls
\* handle_request, which builds the context.
AcceptRequest(req) ==
    /\ pc = "listening"
    /\ pc' = "PreRequest"
    /\ request' = req
    /\ context' = from_request("PreRequest", req)
    /\ ResetHistory
    /\ UNCHANGED <<extVars, connVars, proxyVars, proxyHist, pmVars, routerVars, exec, route_match, response, result, sent, nreg>>

\* The stages before which handle_request assigns context.hook (lines 157,
\* 168, 190, 197 and 207).  PreRequest has no assignment: its context comes
\* from from_request (line 138); the lifecycle hooks get a context of their
\* own in start() and shutdown().
AssignsHook_NotPostHandler == {"PostRoute", "PreHandler", "PreResponse", "PostResponse"}

AssignsHook == {"PostRoute", "PreHandler", "PostHandler", "PreResponse", "PostResponse"}

\* A hook stage begins: context.hook is set where the code sets it and the
\* read lock is taken.
EnterHook ==
    /\ pc \in LifecycleHooks \cup RequestHooks
    /\ exec = NoExec
    /\ exec' = [hook |-> pc, idx |-> 1, live |-> TRUE]
    /\ context' = IF pc \in AssignsHook THEN [context EXCEPT !.hook = pc] ELSE context
    /\ stages' = Append(stages, pc)
    /\ invoked' = <<>>
    /\ results' = <<>>
    /\ UNCHANGED <<extVars, connVars, proxyVars, proxyHist, pmVars, routerVars, pc, request, route_match, response, result, sent,
                   stopSeen, nreg>>

\* The hooks whose callbacks are lent the response mutably.
MutHooks == {"PostHandler", "PreResponse"}
\* An error result carries a variant, any other result none.
KindsOf(res) == IF res \in {"Error", "Err"} THEN PipelineKinds ELSE {"-"}

InLoop == exec # NoExec /\ exec.live /\ exec.idx <= Len(hook_plugins[exec.hook])

\* The loop passes over an entry whose plugin is disabled.
SkipDisabled ==
    /\ InLoop
    /\ LET name == hook_plugins[exec.hook][exec.idx].name
       IN ~is_plugin_enabled(name) \/ name \notin DOMAIN plugins
    /\ exec' = [exec EXCEPT !.idx = @ + 1]
    /\ UNCHANGED <<extVars, connVars, proxyVars, proxyHist, pmVars, routerVars, pc, request, context, route_match, response, result,
                   sent, histVars, nreg>>

\* The loop invokes the callback of an enabled plugin and matches its result.
\* The callback's result is res; kind is the variant of the error when it
\* is one, and edit tells whether the callback rewrote the response it was
\* lent (post_handler and pre_response take `&mut Response`).
InvokePlugin(res, kind, edit) ==
    /\ InLoop
    /\ kind \in KindsOf(res)
    /\ edit => exec.hook \in MutHooks
    /\ response' = IF edit THEN Edited(response) ELSE response
    /\ LET name == hook_plugins[exec.hook][exec.idx].name
           out == Interpret(Executor(exec.hook), res)
       IN /\ is_plugin_enabled(name)
          /\ name \in DOMAIN plugins
          /\ invoked' = Append(invoked, name)
          /\ results' = Append(results, res)
          /\ stopSeen' = IF res = "Stop" /\ stopSeen = "none" THEN exec.hook ELSE stopSeen
          /\ CASE out = "continue" ->
                    /\ exec' = [exec EXCEPT !.idx = @ + 1]
                    /\ UNCHANGED <<pc, result>>
               [] out = "break" ->
                    /\ exec' = [exec EXCEPT !.live = FALSE]
                    /\ UNCHANGED <<pc, result>>
               [] out = "error" ->
                    /\ exec' = NoExec
                    /\ pc' = ErrorTarget(exec.hook)
                    /\ result' = Err(Raised(PluginError(exec.hook, name), kind))
               [] out = "response" ->
                    /\ exec' = NoExec
                    /\ pc' = "returned"
                    /\ result' = Ok(PluginResponse(exec.hook, name))
    /\ UNCHANGED <<extVars, connVars, proxyVars, proxyHist, pmVars, routerVars, request, context, route_match,
                   sent, stages, nreg>>

\* The loop has ended (exhausted, or left by break): the hook execution
\* returns Ok and the lock is released.
FinishHook ==
    /\ exec # NoExec
    /\ ~InLoop
    /\ exec' = NoExec
    /\ pc' = NextStage(exec.hook)
    /\ result' = IF NextStage(exec.hook) = "returned" THEN Ok(response) ELSE result
    /\ UNCHANGED <<extVars, connVars, proxyVars, proxyHist, pmVars, routerVars, request, context, route_match, response, sent,
                   histVars, nreg>>

\* Route matching: lines 150-154.
ResolveRoute ==
    /\ pc = "route"
    /\ route_match' = find_route(routes, request)
    /\ context' = [context EXCEPT !.route_params =
                      IF find_route(routes, request) = None THEN <<>>
                      ELSE find_route(routes, request).params]
    /\ pc' = NextStage("route")
    /\ stages' = Append(stages, "route")
    /\ invoked' = <<>>
    /\ results' = <<>>
    /\ UNCHANGED <<extVars, connVars, proxyVars, proxyHist, pmVars, routerVars, exec, request, response, result, sent,
                   stopSeen, nreg>>

\* A handler error that is noted while the pipeline goes on.
HandlerErrorTarget_GoesOn == NextStage("handler")

\* Lines 180 and 183: `.await?` and `HandlerResult::Error(e) => return Err(e)`.
HandlerErrorTarget == "returned"

\* Lines 179-184: the matched route's handler is invoked.
InvokeHandler(out, kind) ==
    /\ pc = "handler"
    /\ kind \in KindsOf(out)
    /\ route_match # None
    /\ stages' = Append(stages, "handler")
    /\ invoked' = <<>>
    /\ results' = <<>>
    /\ CASE out = "Response" ->
              /\ response' = HandlerResponse
              /\ pc' = NextStage("handler")
              /\ UNCHANGED result
         [] out = "NotFound" ->
              /\ response' = create_not_found_response
              /\ pc' = NextStage("handler")
              /\ UNCHANGED result
         [] out \in {"Error", "Err"} ->
              /\ result' = Err(Raised(HandlerError, kind))
              /\ pc' = HandlerErrorTarget
              /\ UNCHANGED response
    /\ UNCHANGED <<extVars, connVars, proxyVars, proxyHist, pmVars, routerVars, exec, request, context, route_match, sent,
                   stopSeen, nreg>>

\* Lines 185-187: no route matched, the 404 response is built.
NoRoute ==
    /\ pc = "handler"
    /\ route_match = None
    /\ response' = create_not_found_response
    /\ pc' = NextStage("handler")
    /\ invoked' = <<>>
    /\ results' = <<>>
    /\ UNCHANGED <<extVars, connVars, proxyVars, proxyHist, pmVars, routerVars, exec, request, context, route_match, result, sent,
                   stages, stopSeen, nreg>>

\* The service closure of handle_connection: Ok(response) is written as it
\* is, Err(e) is rendered by create_error_response.
SendReply ==
    /\ pc = "returned"
    /\ sent' = IF result.tag = "ok" THEN result.resp ELSE create_error_response(result.err)
    /\ pc' = "sent"
    /\ UNCHANGED <<extVars, connVars, proxyVars, proxyHist, pmVars, routerVars, exec, request, context, route_match, response, result,
                   histVars, nreg>>

\* The connection's service loop waits for its next request; the finished
\* request and everything local to it is dropped.
AwaitRequest ==
    /\ pc = "sent"
    /\ pc' = "listening"
    /\ request' = None
    /\ context' = None
    /\ route_match' = None
    /\ response' = None
    /\ result' = None
    /\ sent' = None
    /\ ResetHistory
    /\ UNCHANGED <<extVars, connVars, proxyVars, proxyHist, pmVars, routerVars, exec, nreg>>

\* The route table the server is set up with before it starts, and the
\* requests it is sent: one that the route matches and one that it does not.
SetupRoute == [method |-> "GET", path |-> <<Lit("users"), Param("id")>>,
               path_regex |-> NoRegex, priority |-> 100]
PipelineRequests == {[method |-> "GET", path |-> <<"users", "42">>],
                     [method |-> "POST", path |-> <<"users", "42">>]}

\* ProxyHandler::new leaves the handler idle with its counter at 0.
InitHandle ==
    /\ current_upstream = 0
    /\ hpc = "idle"
    /\ proxy_request = None
    /\ attempt = 0
    /\ last_error = None
    /\ upstream = 0
    /\ upstream_request = None
    /\ handler_result = None
    /\ selects = 0
    /\ forwards = 0
    /\ sleeps = 0
    /\ observed = None
    /\ picks = [i \in 1..Len(upstreams) |-> 0]
    /\ last_picks = <<>>

\* The server of Spec and the router of SpecRouter run without a proxy.
NoProxy ==
    /\ config = [enabled |-> FALSE, retry_attempts |-> None]
    /\ upstreams = <<>>
    /\ InitHandle

\* Before Server::start has bound its listener there is no connection.
NoConns ==
    /\ accept_loop = "new"
    /\ accept_errors = 0
    /\ conns = <<>>

\* A server, router or proxy on its own: no session manager is in play.
NoSessions ==
    /\ timeout = 0
    /\ store_kind = "memory"
    /\ sessions = <<>>
    /\ file = None
    /\ dirty = FALSE
    /\ now = 0
    /\ pending = None
    /\ fresh = None
    /\ got = None
    /\ swept = None

\* Nothing has called Server::start yet.
NoShutdown ==
    /\ entry_point = "none"
    /\ mpc = "serving"
    /\ shutdown_runs = 0
    /\ inflight = {}

\* No auth provider is in play.
NoProvider ==
    /\ users = <<>>
    /\ auth_request = None
    /\ auth_result = None

\* No task is inside add_route or find_route.
NoRouterTasks ==
    /\ rwlock = [writer |-> FALSE, readers |-> {}]
    /\ adder = [pc |-> "idle"]
    /\ finder = <<>>

\* ProxyHandler::new sets RoundRobin (line 83).
NoSelection ==
    /\ strategy = "RoundRobin"
    /\ selection = None

\* start_health_checks has not been called.
NoHealthTask == health_task = [pc |-> "off"]

\* No call is in flight on a file store.
NoStoreTasks ==
    /\ store_task = <<>>
    /\ store_readers = {}

\* No RouterBuilder and no MockRouter is in play.
NoBuilder == builder = None
NoMock ==
    /\ mock_routes = <<>>
    /\ mock_reply = None

NoLate == NoHealthTask /\ NoStoreTasks /\ NoBuilder /\ NoMock

NoExt == NoSessions /\ NoShutdown /\ NoProvider /\ NoRouterTasks /\ NoSelection /\ NoLate

InitManager ==
    /\ plugins = <<>>
    /\ hook_plugins = [h \in PluginHook |-> <<>>]
    /\ enabled_plugins = <<>>
    /\ nreg = 0

InitServer ==
    /\ pc = "new"
    /\ exec = NoExec
    /\ request = None
    /\ context = None
    /\ route_match = None
    /\ response = None
    /\ result = None
    /\ sent = None
    /\ stages = <<>>
    /\ invoked = <<>>
    /\ results = <<>>
    /\ stopSeen = "none"

Init ==
    /\ InitManager
    /\ InitServer
    /\ routes = add_route(<<>>, SetupRoute, 1).routes
    /\ add_result = None
    /\ find_result = None
    /\ NoProxy
    /\ NoConns
    /\ NoExt

Next ==
    \/ \E p \in PluginObjects : RegisterPlugin(p)
    \/ \E n \in Names, e \in BOOLEAN : SetPluginEnabled(n, e)
    \/ Start
    \/ Shutdown
    \/ \E req \in PipelineRequests : AcceptRequest(req)
    \/ EnterHook
    \/ SkipDisabled
    \/ \E res \in PluginResult, kind \in PipelineKinds \cup {"-"}, edit \in BOOLEAN :
          InvokePlugin(res, kind, edit)
    \/ FinishHook
    \/ ResolveRoute
    \/ \E out \in HandlerResult, kind \in PipelineKinds \cup {"-"} : InvokeHandler(out, kind)
    \/ NoRoute
    \/ SendReply
    \/ AwaitRequest

Spec == Init /\ [][Next]_vars

(***************************************************************************)
(* SpecRouter: the route table under add_route and find_route              *)
(***************************************************************************)
RoutePriorities == {10, 100}

\* The routes that get registered: literal and parameterized patterns, with
\* and without a method, and routes with a custom pattern (with_regex), on a
\* literal and on a parameterized path: one not anchored, one that does not
\* compile; and a parameter pattern that does not compile.
RouteInputs ==
    [method : {"ANY", "GET"},
     path : {<<Lit("users"), Lit("42")>>, <<Lit("users"), Param("id")>>},
     path_regex : {NoRegex},
     priority : RoutePriorities]
    \cup
    [method : {"ANY"},
     path : {<<Lit("users")>>},
     path_regex : {Regex(FALSE, FALSE, <<Lit("users")>>), BadRegex},
     priority : RoutePriorities]
    \cup
    [method : {"ANY"},
     path : {<<Lit("users"), Param("id")>>},
     path_regex : {Regex(FALSE, FALSE, <<Lit("users")>>)},
     priority : {10}]
    \cup
    [method : {"POST"},
     path : {<<Param("id"), Param("id")>>},
     path_regex : {NoRegex},
     priority : {100}]

\* Router::add_route: the write lock is held from the push to the end of the
\* sort, so the call is one step.
AddRoute(route) ==
    /\ Len(routes) < MaxRoutes
    /\ routes' = add_route(routes, route, Len(routes) + 1).routes
    /\ add_result' = [result |-> add_route(routes, route, Len(routes) + 1).result,
                      route |-> route]
    /\ find_result' = None
    /\ UNCHANGED <<extVars, connVars, proxyVars, proxyHist, pmVars, reqVars, histVars, nreg>>

\* Router::find_route: the read lock is held for the whole lookup.
FindRoute(req) ==
    /\ find_result' = [request |-> req, found |-> find_route(routes, req)]
    /\ UNCHANGED <<extVars, connVars, proxyVars, proxyHist, pmVars, reqVars, histVars, routes, add_result, nreg>>

InitRouter ==
    /\ InitManager
    /\ InitServer
    /\ routes = <<>>
    /\ add_result = None
    /\ find_result = None
    /\ NoProxy
    /\ NoConns
    /\ NoExt

NextRouter ==
    \/ \E route \in RouteInputs : AddRoute(route)
    \/ \E req \in Requests : FindRoute(req)

SpecRouter == InitRouter /\ [][NextRouter]_vars

(***************************************************************************)
(* ProxyHandler: handle, handle_with_retry, select_upstream,               *)
(* forward_request, convert_response and the health-check task             *)
(***************************************************************************)
MaxUpstreams == 2
MaxCalls == 5
DefaultRetryAttempts == 3

\* ServerError values the proxy builds: the variant and its message.
ServerError(kind, msg) == [kind |-> kind, msg |-> msg]
NoHealthyUpstreams == ServerError("ServiceUnavailable", "No healthy upstreams available")
AllAttemptsFailed == ServerError("ServiceUnavailable", "All retry attempts failed")

\* A header is its name and whether its value is visible ASCII, which is
\* what HeaderValue::to_str asks for.
Header(name, text) == [name |-> name, text |-> text]
to_lowercase(name) == IF name = "Upgrade" THEN "upgrade" ELSE name

is_hop_by_hop_header(header_name) ==
    header_name \in {"connection", "keep-alive", "proxy-authenticate",
                     "proxy-authorization", "te", "trailers", "transfer-encoding",
                     "upgrade", "host"}

\* The requests handle is called with and what an upstream answers.
RequestHeaders == {{},
                   {Header("host", TRUE), Header("x-id", TRUE), Header("Upgrade", TRUE)},
                   {Header("x-id", FALSE), Header("te", TRUE)}}
ProxyRequests == [method : {"GET"}, headers : RequestHeaders]
                 \cup [method : {"OPTIONS"}, headers : {{}}]
UpstreamResponses ==
    {[kind |-> "response", status |-> 200, body |-> "body",
      headers |-> {Header("content-type", TRUE), Header("connection", TRUE)}],
     [kind |-> "response", status |-> 502, body |-> "",
      headers |-> {Header("x-id", FALSE), Header("transfer-encoding", TRUE)}]}
\* What sending to the upstream comes to: the timeout elapses, the send
\* fails, or the upstream answers.
ForwardOutcomes == {[kind |-> "timeout"], [kind |-> "failed"]} \cup UpstreamResponses

\* The header loop of forward_request: lines 151-160.
ForwardedHeaders(headers) ==
    {h \in headers : ~is_hop_by_hop_header(to_lowercase(h.name)) /\ h.text}

\* convert_response: status and body as they are, the headers filtered.
convert_response(r) ==
    [status |-> r.status,
     headers |-> {h \in r.headers : ~is_hop_by_hop_header(to_lowercase(h.name))},
     body |-> r.body]

SupportedMethods == {"GET", "POST", "PUT", "DELETE", "PATCH", "HEAD"}

\* forward_request after increment_requests: the request sent to the
\* upstream, if one is sent, and the Result returned.
forward_request(req, outcome) ==
    IF req.method \notin SupportedMethods
    THEN [sent |-> None,
          result |-> Err(ServerError("BadRequest", "Unsupported method"))]
    ELSE [sent |-> [method |-> req.method, headers |-> ForwardedHeaders(req.headers)],
          result |-> CASE outcome.kind = "timeout" -> Err(ServerError("Timeout", ""))
                       [] outcome.kind = "failed" ->
                            Err(ServerError("Other", "Upstream request failed"))
                       [] OTHER -> Ok(convert_response(outcome))]

\* The indices of the healthy upstreams, in list order.
HealthyUpstreams(ups) ==
    SelectSeq([i \in 1..Len(ups) |-> i], LAMBDA i : ups[i].healthy)

\* A selection that does not look at the health flags.
select_upstream_Blind(ups, counter) ==
    IF ups = <<>> THEN 0 ELSE (counter % Len(ups)) + 1

\* A selection that always takes the first healthy upstream.
select_upstream_First(ups, counter) ==
    IF HealthyUpstreams(ups) = <<>> THEN 0 ELSE HealthyUpstreams(ups)[1]

\* select_upstream under RoundRobin, the strategy ProxyHandler::new sets:
\* the index of the upstream selected, 0 for None.
select_upstream(ups, counter) ==
    IF HealthyUpstreams(ups) = <<>> THEN 0
    ELSE HealthyUpstreams(ups)[(counter % Len(HealthyUpstreams(ups))) + 1]

\* Line 205: self.config.retry_attempts.unwrap_or(3).
max_retries == IF config.retry_attempts = None THEN DefaultRetryAttempts
               ELSE config.retry_attempts.val

\* A loop that makes one attempt more.
LoopEnds_OneMore(a) == a > max_retries

\* for attempt in 0..=max_retries: the loop has ended after attempt a.
LoopEnds(a) == a >= max_retries

\* A return value that prefers the generic error.
ReturnedError_Generic(last) == AllAttemptsFailed

\* Line 238: last_error.unwrap_or_else(...).
ReturnedError(last) == IF last = None THEN AllAttemptsFailed ELSE last

\* A retry loop that leaves the health flag alone.
MarksUnhealthy_Never(e) == FALSE

\* Line 222: matches!(e, ServerError::Timeout).
MarksUnhealthy(e) == e.kind = "Timeout"

ResetProxyHistory ==
    /\ selects' = 0
    /\ forwards' = 0
    /\ sleeps' = 0
    /\ observed' = None

NoPicks == [i \in 1..Len(upstreams) |-> 0]

\* Handler::handle: a disabled proxy answers NotFound, otherwise
\* handle_with_retry begins.
Handle(req) ==
    /\ hpc = "idle"
    /\ current_upstream + max_retries + 1 <= MaxCalls
    /\ proxy_request' = req
    /\ ResetProxyHistory
    /\ IF ~config.enabled
       THEN /\ hpc' = "done"
            /\ handler_result' = [tag |-> "NotFound"]
            /\ UNCHANGED <<attempt, last_error>>
       ELSE /\ hpc' = "select"
            /\ attempt' = 0
            /\ last_error' = None
            /\ UNCHANGED handler_result
    /\ UNCHANGED <<config, upstreams, current_upstream, upstream, upstream_request,
                   picks, last_picks>>
    /\ UNCHANGED <<pmVars, routerVars, reqVars, histVars, nreg, connVars, extVars>>

\* Lines 209 and 227-229: select_upstream, and the return when it finds none.
SelectUpstream ==
    /\ hpc = "select"
    /\ selects' = selects + 1
    /\ LET u == select_upstream(upstreams, current_upstream)
       IN IF u = 0
          THEN /\ hpc' = "done"
               /\ handler_result' = [tag |-> "Error", err |-> NoHealthyUpstreams]
               /\ UNCHANGED <<upstream, current_upstream, picks, last_picks>>
          ELSE /\ hpc' = "forward"
               /\ upstream' = u
               /\ current_upstream' = current_upstream + 1
               /\ picks' = [picks EXCEPT ![u] = @ + 1]
               /\ last_picks' = IF last_picks = <<>> THEN <<u>>
                                ELSE <<last_picks[Len(last_picks)], u>>
               /\ UNCHANGED handler_result
    /\ UNCHANGED <<config, upstreams, proxy_request, attempt, last_error, upstream_request,
                   forwards, sleeps, observed>>
    /\ UNCHANGED <<pmVars, routerVars, reqVars, histVars, nreg, connVars, extVars>>

\* Lines 210-226 and 238: forward_request on the selected upstream and the
\* match on its result; after the last attempt the loop ends and the error
\* is returned.
ForwardRequest(outcome) ==
    /\ hpc = "forward"
    /\ forwards' = forwards + 1
    /\ LET fwd == forward_request(proxy_request, outcome)
           counted == [upstreams EXCEPT ![upstream].request_count = @ + 1]
       IN /\ upstream_request' = fwd.sent
          /\ observed' = IF fwd.sent = None THEN fwd.result.err
                         ELSE IF fwd.result.tag = "err" THEN fwd.result.err ELSE outcome
          /\ IF fwd.result.tag = "ok"
             THEN /\ hpc' = "done"
                  /\ handler_result' = [tag |-> "Response", resp |-> fwd.result.resp]
                  /\ upstreams' = counted
                  /\ UNCHANGED <<last_error, picks, last_picks>>
             ELSE /\ last_error' = fwd.result.err
                  /\ upstreams' = IF MarksUnhealthy(fwd.result.err)
                                  THEN [counted EXCEPT ![upstream].healthy = FALSE]
                                  ELSE counted
                  /\ IF MarksUnhealthy(fwd.result.err)
                     THEN picks' = NoPicks /\ last_picks' = <<>>
                     ELSE UNCHANGED <<picks, last_picks>>
                  /\ IF LoopEnds(attempt)
                     THEN /\ hpc' = "done"
                          /\ handler_result' =
                                [tag |-> "Error", err |-> ReturnedError(fwd.result.err)]
                     ELSE /\ hpc' = "sleep"
                          /\ UNCHANGED handler_result
    /\ UNCHANGED <<config, current_upstream, proxy_request, attempt, upstream, selects, sleeps>>
    /\ UNCHANGED <<pmVars, routerVars, reqVars, histVars, nreg, connVars, extVars>>

\* Lines 232-235: the backoff delay, then the next iteration.
Backoff ==
    /\ hpc = "sleep"
    /\ sleeps' = sleeps + 1
    /\ attempt' = attempt + 1
    /\ hpc' = "select"
    /\ UNCHANGED <<config, upstreams, current_upstream, proxy_request, last_error, upstream,
                   upstream_request, handler_result, selects, forwards, observed,
                   picks, last_picks>>
    /\ UNCHANGED <<pmVars, routerVars, reqVars, histVars, nreg, connVars, extVars>>

\* The caller has the result; the handler waits for its next call.
ReturnResult ==
    /\ hpc = "done"
    /\ hpc' = "idle"
    /\ proxy_request' = None
    /\ handler_result' = None
    /\ upstream' = 0
    /\ upstream_request' = None
    /\ attempt' = 0
    /\ last_error' = None
    /\ ResetProxyHistory
    /\ UNCHANGED <<config, upstreams, current_upstream, picks, last_picks>>
    /\ UNCHANGED <<pmVars, routerVars, reqVars, histVars, nreg, connVars, extVars>>

\* A task that checks every upstream, with or without a path.
HasHealthCheck_Always(u) == TRUE

\* Line 257: `if let Some(health_check_path) = &upstream.config.health_check`.
HasHealthCheck(u) == u.health_check

\* One check of the task start_health_checks spawns: an upstream with a
\* health-check path is marked by the answer to its check.
HealthCheck(i, ok) ==
    /\ i \in 1..Len(upstreams)
    /\ HasHealthCheck(upstreams[i])
    /\ upstreams' = [upstreams EXCEPT ![i].healthy = ok]
    /\ IF upstreams[i].healthy # ok
       THEN picks' = NoPicks /\ last_picks' = <<>>
       ELSE UNCHANGED <<picks, last_picks>>
    /\ UNCHANGED <<config, current_upstream, hpc, proxy_request, attempt, last_error,
                   upstream, upstream_request, handler_result, selects, forwards, sleeps,
                   observed>>
    /\ UNCHANGED <<pmVars, routerVars, reqVars, histVars, nreg, connVars, extVars>>

\* ProxyHandler::new: every upstream healthy with no request counted.
Upstream(health_check) ==
    [health_check |-> health_check, healthy |-> TRUE, request_count |-> 0]

Some(v) == [tag |-> "some", val |-> v]
RetryAttempts == {None, Some(0), Some(1)}
ProxyConfigs == [enabled : BOOLEAN, retry_attempts : RetryAttempts]
UpstreamLists ==
    UNION {[1..n -> {Upstream(TRUE), Upstream(FALSE)}] : n \in 0..MaxUpstreams}

InitProxy ==
    /\ InitManager
    /\ InitServer
    /\ routes = <<>>
    /\ add_result = None
    /\ find_result = None
    /\ config \in ProxyConfigs
    /\ upstreams \in UpstreamLists
    /\ InitHandle
    /\ NoConns
    /\ NoExt

NextProxy ==
    \/ \E req \in ProxyRequests : Handle(req)
    \/ SelectUpstream
    \/ \E outcome \in ForwardOutcomes : ForwardRequest(outcome)
    \/ Backoff
    \/ ReturnResult
    \/ \E i \in 1..MaxUpstreams, ok \in BOOLEAN : HealthCheck(i, ok)

SpecProxy == InitProxy /\ [][NextProxy]_vars

\* handle makes progress on its own: each of its steps is taken once it can
\* be; calls of handle and health checks come from outside.
HandleStep ==
    \/ SelectUpstream
    \/ \E outcome \in ForwardOutcomes : ForwardRequest(outcome)
    \/ Backoff

SpecProxyFair == SpecProxy /\ WF_vars(HandleStep)

(***************************************************************************)
(* SpecConn: the accept loop of Server::start and the connection tasks it  *)
(* spawns, each running handle_connection.  handle_request is taken by its *)
(* result, Ok(response) or Err(e), which Spec derives stage by stage.      *)
(***************************************************************************)
MaxConns == 2
MaxRequests == 2
MaxAcceptErrors == 1

\* What handle_request returns: a response, or an error of any variant.
RequestResults ==
    {Ok(HandlerResponse)} \cup {Err(Raised(HandlerError, kind)) : kind \in ErrorKinds}

NoTask == [task |-> "none", served |-> 0, failures |-> 0, result |-> None, reply |-> None]

\* A service closure that hands the error to serve_connection, which ends
\* the connection.
service_fn_Propagate(res) ==
    IF res.tag = "ok" THEN [reply |-> res.resp, task |-> "idle"]
    ELSE [reply |-> None, task |-> "ended"]

\* The service closure of handle_connection, lines 106-118: it answers
\* Ok(response) in both arms, so the service loop goes on.
service_fn(res) ==
    [reply |-> IF res.tag = "ok" THEN res.resp ELSE create_error_response(res.err),
     task |-> "idle"]

\* listener.accept() yields a connection: its task is spawned.
Accept(c) ==
    /\ accept_loop = "listening"
    /\ conns[c].task = "none"
    /\ conns' = [conns EXCEPT ![c].task = "idle"]
    /\ UNCHANGED <<accept_loop, accept_errors>>
    /\ UNCHANGED <<pmVars, routerVars, reqVars, histVars, nreg, proxyVars, proxyHist, extVars>>

\* listener.accept() fails: the error is logged and the loop goes on.
AcceptError ==
    /\ accept_loop = "listening"
    /\ accept_errors < MaxAcceptErrors
    /\ accept_errors' = accept_errors + 1
    /\ UNCHANGED <<accept_loop, conns>>
    /\ UNCHANGED <<pmVars, routerVars, reqVars, histVars, nreg, proxyVars, proxyHist, extVars>>

\* A request arrives on a connection whose service loop is waiting.
ReceiveRequest(c) ==
    /\ conns[c].task = "idle"
    /\ conns[c].served < MaxRequests
    /\ conns' = [conns EXCEPT ![c].task = "handling", ![c].result = None, ![c].reply = None]
    /\ UNCHANGED <<accept_loop, accept_errors>>
    /\ UNCHANGED <<pmVars, routerVars, reqVars, histVars, nreg, proxyVars, proxyHist, extVars>>

\* handle_request returns res and the service closure answers.
Reply(c, res) ==
    /\ conns[c].task = "handling"
    /\ conns' = [conns EXCEPT ![c].task = service_fn(res).task,
                              ![c].reply = service_fn(res).reply,
                              ![c].result = res,
                              ![c].served = @ + 1,
                              ![c].failures = IF res.tag = "err" THEN @ + 1 ELSE @]
    /\ UNCHANGED <<accept_loop, accept_errors>>
    /\ UNCHANGED <<pmVars, routerVars, reqVars, histVars, nreg, proxyVars, proxyHist, extVars>>

\* serve_connection returns, the peer having closed or the transport having
\* failed: handle_connection returns and the task ends, and what it held is
\* dropped.
ConnectionEnds(c) ==
    /\ conns[c].task \in {"idle", "handling"}
    /\ conns' = [conns EXCEPT ![c] = [NoTask EXCEPT !.task = "ended"]]
    /\ UNCHANGED <<accept_loop, accept_errors>>
    /\ UNCHANGED <<pmVars, routerVars, reqVars, histVars, nreg, proxyVars, proxyHist, extVars>>

\* Server::start has bound the listener and entered its loop.
InitConn ==
    /\ InitManager
    /\ InitServer
    /\ routes = <<>>
    /\ add_result = None
    /\ find_result = None
    /\ NoProxy
    /\ accept_loop = "listening"
    /\ accept_errors = 0
    /\ conns = [c \in 1..MaxConns |-> NoTask]
    /\ NoExt

NextConn ==
    \/ \E c \in 1..MaxConns : Accept(c)
    \/ AcceptError
    \/ \E c \in 1..MaxConns : ReceiveRequest(c)
    \/ \E c \in 1..MaxConns, res \in RequestResults : Reply(c, res)
    \/ \E c \in 1..MaxConns : ConnectionEnds(c)

SpecConn == InitConn /\ [][NextConn]_vars

(***************************************************************************)
(* SpecSession: the SessionManager (session/mod.rs) over a                 *)
(* MemorySessionStore or a FileSessionStore.  Time is a counter of clock   *)
(* ticks that never runs backwards.  A store call is one step; get_session *)
(* is two, store.get and what follows it, so that other calls can come     *)
(* between them.                                                           *)
(***************************************************************************)
MaxTime == 3

\* The identifiers uuid::Uuid::new_v4 hands out, and the timeouts a
\* configuration can hold (session.timeout is a u64 number of seconds).
SessionIds == {"s1", "s2"}
Timeouts == {0, 1, 2}

\* Session::new at time `at`.
SessionNew(id, t, at) ==
    [id |-> id, created_at |-> at, expires_at |-> at + t, last_accessed |-> at]

\* An expiry check that takes the moment of expiry as expired.
is_expired_NotStrict(s, at) == at >= s.expires_at

\* Session::is_expired at time `at`.
is_expired(s, at) == at > s.expires_at

\* A refresh that forgets the timeout.
refresh_Now(s, t, at) == [s EXCEPT !.last_accessed = at, !.expires_at = at]

\* Session::refresh at time `at`.
refresh(s, t, at) == [s EXCEPT !.last_accessed = at, !.expires_at = at + t]

MapRemove(m, k) == [x \in DOMAIN m \ {k} |-> m[x]]

\* The map a store call works on.  Every call of the file store begins by
\* loading the file when the map is empty; a file that is missing or blank
\* leaves the map as it is.
Loaded ==
    IF store_kind = "file" /\ sessions = <<>> /\ file # None THEN file.val ELSE sessions

\* mark_dirty and save_if_dirty: the file store writes its map to the file
\* and clears the flag.  The memory store has no file.
Persist(m) ==
    IF store_kind = "file"
    THEN file' = Some(m) /\ dirty' = FALSE
    ELSE UNCHANGED <<file, dirty>>

\* SessionStore::save and SessionStore::delete.
StoreSave(s) ==
    /\ sessions' = MapInsert(Loaded, s.id, s)
    /\ Persist(MapInsert(Loaded, s.id, s))
StoreDelete(id) ==
    /\ sessions' = MapRemove(Loaded, id)
    /\ Persist(MapRemove(Loaded, id))

\* sessions.retain(|_, session| session.expires_at > now).
retain(m, at) == [x \in {y \in DOMAIN m : m[y].expires_at > at} |-> m[x]]

\* A sweep that never writes the file.
SweepPersists_Never(removed_count) == FALSE

\* FileSessionStore::cleanup_expired writes the file if it removed a session.
SweepPersists(removed_count) == removed_count > 0

NoSessionHistory == fresh' = None /\ got' = None

\* create_session: a new id, Session::new, store.save.
CreateSession(id) ==
    /\ id \notin DOMAIN Loaded
    /\ pending # None => pending.id # id
    /\ StoreSave(SessionNew(id, timeout, now))
    /\ fresh' = [session |-> SessionNew(id, timeout, now), reading |-> FALSE]
    /\ got' = None
    /\ swept' = None
    /\ UNCHANGED <<timeout, store_kind, now, pending>>
    /\ UNCHANGED <<coreVars, notSess>>

\* get_session, line 135: store.get hands out a clone of the stored session.
GetSessionRead(id) ==
    /\ pending = None
    /\ sessions' = Loaded
    /\ pending' = [id |-> id,
                   found |-> IF id \in DOMAIN Loaded THEN Some(Loaded[id]) ELSE None,
                   deleted |-> FALSE]
    /\ fresh' = IF fresh # None /\ fresh.session.id = id /\ ~fresh.reading
                THEN [fresh EXCEPT !.reading = TRUE]
                ELSE None
    /\ got' = None
    /\ UNCHANGED <<timeout, store_kind, file, dirty, now, swept>>
    /\ UNCHANGED <<coreVars, notSess>>

\* get_session, lines 136-147: the expiry check on the clone, then the
\* delete, or the refresh and the save.  is_expired and refresh read the
\* clock one after the other: it may have advanced by d between them.
GetSessionFinish(d) ==
    /\ pending # None
    /\ now + d <= MaxTime
    /\ IF pending.found = None
       THEN /\ d = 0
            /\ got' = [id |-> pending.id, found |-> None, checked |-> now, result |-> None,
                       roundtrip |-> fresh # None /\ fresh.reading,
                       deleted |-> pending.deleted]
            /\ UNCHANGED <<sessions, file, dirty, now, swept>>
       ELSE IF is_expired(pending.found.val, now)
       THEN /\ d = 0
            /\ StoreDelete(pending.id)
            /\ got' = [id |-> pending.id, found |-> pending.found, checked |-> now,
                       result |-> None, roundtrip |-> fresh # None /\ fresh.reading,
                       deleted |-> pending.deleted]
            /\ UNCHANGED <<now, swept>>
       ELSE /\ now' = now + d
            /\ StoreSave(refresh(pending.found.val, timeout, now + d))
            /\ got' = [id |-> pending.id, found |-> pending.found, checked |-> now,
                       result |-> Some(refresh(pending.found.val, timeout, now + d)),
                       roundtrip |-> fresh # None /\ fresh.reading,
                       deleted |-> pending.deleted]
            /\ swept' = None
    /\ pending' = None
    /\ fresh' = None
    /\ UNCHANGED <<timeout, store_kind>>
    /\ UNCHANGED <<coreVars, notSess>>

\* The get_session call in flight with the note whether its id has been
\* deleted, and not saved again, since it read the store.
NotedDelete(id, deleted) ==
    IF pending # None /\ pending.id = id THEN [pending EXCEPT !.deleted = deleted]
    ELSE pending

\* save_session with a session its caller has built: one that expires at exp.
SaveSession(id, exp) ==
    /\ StoreSave([SessionNew(id, timeout, now) EXCEPT !.expires_at = exp])
    /\ NoSessionHistory
    /\ swept' = None
    /\ pending' = NotedDelete(id, FALSE)
    /\ UNCHANGED <<timeout, store_kind, now>>
    /\ UNCHANGED <<coreVars, notSess>>

\* delete_session.  A get_session call in flight for the id has the delete
\* noted beside it (an observation, read by no guard).
DeleteSession(id) ==
    /\ StoreDelete(id)
    /\ NoSessionHistory
    /\ pending' = NotedDelete(id, TRUE)
    /\ UNCHANGED <<timeout, store_kind, now, swept>>
    /\ UNCHANGED <<coreVars, notSess>>

\* cleanup_expired of either store: the sessions whose expires_at is not
\* after now are dropped and counted.
CleanupExpired ==
    /\ LET kept == retain(Loaded, now)
           removed_count == Cardinality(DOMAIN Loaded) - Cardinality(DOMAIN kept)
       IN /\ sessions' = kept
          /\ IF SweepPersists(removed_count) THEN Persist(kept) ELSE UNCHANGED <<file, dirty>>
          /\ swept' = [count |-> removed_count,
                       again |-> swept # None,
                       same |-> kept = sessions /\
                                (~SweepPersists(removed_count) \/ store_kind = "memory"
                                    \/ file = Some(kept))]
    /\ NoSessionHistory
    /\ UNCHANGED <<timeout, store_kind, now, pending>>
    /\ UNCHANGED <<coreVars, notSess>>

\* The clock advances.  A sweep that has returned is followed by another
\* "with no session expiring in between" if no stored session's expires_at
\* is reached meanwhile.
Tick ==
    /\ now < MaxTime
    /\ now' = now + 1
    /\ NoSessionHistory
    /\ swept' = IF \E x \in DOMAIN Loaded : Loaded[x].expires_at = now + 1
                THEN None ELSE swept
    /\ UNCHANGED <<timeout, store_kind, sessions, file, dirty, pending>>
    /\ UNCHANGED <<coreVars, notSess>>

\* The sessions file a file store finds when it is constructed: none, an
\* empty map, or a session a previous run has left.
InitialFiles ==
    {None, Some(<<>>), Some([x \in {"s1"} |-> SessionNew("s1", 1, 0)])}

InitSession ==
    /\ NoLate
    /\ NoRouterTasks
    /\ NoSelection
    /\ InitManager
    /\ InitServer
    /\ routes = <<>>
    /\ add_result = None
    /\ find_result = None
    /\ NoProxy
    /\ NoConns
    /\ timeout \in Timeouts
    /\ store_kind \in {"memory", "file"}
    /\ sessions = <<>>
    /\ file \in IF store_kind = "file" THEN InitialFiles ELSE {None}
    /\ dirty = FALSE
    /\ now = 0
    /\ pending = None
    /\ fresh = None
    /\ got = None
    /\ swept = None
    /\ NoShutdown
    /\ NoProvider

NextSession ==
    \/ \E id \in SessionIds : CreateSession(id)
    \/ \E id \in SessionIds : GetSessionRead(id)
    \/ \E d \in {0, 1} : GetSessionFinish(d)
    \/ \E id \in SessionIds, exp \in 0..MaxTime : SaveSession(id, exp)
    \/ \E id \in SessionIds : DeleteSession(id)
    \/ CleanupExpired
    \/ Tick

SpecSession == InitSession /\ [][NextSession]_vars

(***************************************************************************)
(* SpecShutdown: the connection layer of SpecConn inside the process that  *)
(* runs it.  start_server (main.rs) awaits Server::start and the shutdown  *)
(* signal in one select!; start_foreground (cli/mod.rs) spawns             *)
(* Server::start as a task and awaits the signal.  Both then call          *)
(* Server::shutdown and return, and with them the runtime ends.            *)
(***************************************************************************)
EntryPoints == {"start_server", "start_foreground"}

\* The requests in flight: the connection and the number of its request.
InFlight == {<<c, conns[c].served + 1>> : c \in {d \in 1..Len(conns) : conns[d].task = "handling"}}

\* The shutdown signal arrives.  In start_server the select! completes and
\* drops the future of Server::start, and the listener with it; in
\* start_foreground the accept loop is a task of its own and goes on.
Signal ==
    /\ mpc = "serving"
    /\ mpc' = "shutdown"
    /\ accept_loop' = IF entry_point = "start_server" THEN "dropped" ELSE accept_loop
    /\ inflight' = InFlight
    /\ UNCHANGED <<entry_point, shutdown_runs, accept_errors, conns>>
    /\ UNCHANGED <<pmVars, routerVars, reqVars, histVars, nreg, proxyVars, proxyHist, notShut>>

\* Server::shutdown executes the OnShutdown hook and returns ok or the
\* error of a plugin.  start_foreground then aborts the task of
\* Server::start, unless the error has made it return.
ServerShutdown(ok) ==
    /\ mpc = "shutdown"
    /\ shutdown_runs' = shutdown_runs + 1
    /\ mpc' = IF entry_point = "start_foreground" /\ ok THEN "abort" ELSE "return"
    /\ UNCHANGED <<entry_point, inflight, connVars>>
    /\ UNCHANGED <<pmVars, routerVars, reqVars, histVars, nreg, proxyVars, proxyHist, notShut>>

\* start_foreground, line 305: server_handle.abort().
AbortServer ==
    /\ mpc = "abort"
    /\ accept_loop' = "dropped"
    /\ mpc' = "return"
    /\ UNCHANGED <<entry_point, shutdown_runs, inflight, accept_errors, conns>>
    /\ UNCHANGED <<pmVars, routerVars, reqVars, histVars, nreg, proxyVars, proxyHist, notShut>>

\* A task the runtime drops when it ends: one in the middle of a request is
\* cut off there, one waiting for a request just ends.
Dropped(t) ==
    CASE t.task = "handling" -> [t EXCEPT !.task = "killed"]
      [] t.task = "idle" -> [NoTask EXCEPT !.task = "ended"]
      [] OTHER -> t

\* The entry_point point returns, main returns, and the runtime is dropped with
\* every task that is still running: nothing has waited for them.
Exit ==
    /\ mpc = "return"
    /\ mpc' = "exited"
    /\ accept_loop' = "dropped"
    /\ conns' = [c \in 1..Len(conns) |-> Dropped(conns[c])]
    /\ UNCHANGED <<entry_point, shutdown_runs, inflight, accept_errors>>
    /\ UNCHANGED <<pmVars, routerVars, reqVars, histVars, nreg, proxyVars, proxyHist, notShut>>

InitShutdown ==
    /\ NoLate
    /\ NoRouterTasks
    /\ NoSelection
    /\ InitManager
    /\ InitServer
    /\ routes = <<>>
    /\ add_result = None
    /\ find_result = None
    /\ NoProxy
    /\ NoSessions
    /\ accept_loop = "listening"
    /\ accept_errors = 0
    /\ conns = [c \in 1..MaxConns |-> NoTask]
    /\ entry_point \in EntryPoints
    /\ mpc = "serving"
    /\ shutdown_runs = 0
    /\ inflight = {}
    /\ NoProvider

NextShutdown ==
    \/ NextConn
    \/ Signal
    \/ \E ok \in BOOLEAN : ServerShutdown(ok)
    \/ AbortServer
    \/ Exit

SpecShutdown == InitShutdown /\ [][NextShutdown]_vars

(***************************************************************************)
(* SpecAuth: the Basic auth provider (plugins/auth/basic.rs).  The text of *)
(* a credential is the sequence of its parts, "admin:secret" being         *)
(* <<"admin", ":", "secret">>; the payload of a header is the base64       *)
(* encoding of a text, or something that is no encoding of any.            *)
(***************************************************************************)
Usernames == {"admin", "user"}
Passwords == {"secret", "password"}

Base64(text) == [b64 |-> TRUE, text |-> text]
NotBase64 == [b64 |-> FALSE, text |-> <<>>]
Authorization(scheme, payload) == [tag |-> "some", scheme |-> scheme, payload |-> payload]

\* The requests authenticate is called with: without an Authorization
\* header, with Basic credentials of a known or unknown user and a right or
\* wrong password, with a payload that is not base64 or holds no colon, and
\* with a header of another scheme.
AuthRequests ==
    {None}
    \cup {Authorization("Basic", Base64(<<u, ":", p>>)) :
            u \in Usernames \cup {"nobody"}, p \in Passwords \cup {"wrong"}}
    \cup {Authorization("Basic", NotBase64),
          Authorization("Basic", Base64(<<"admin">>)),
          Authorization("Bearer", Base64(<<"admin", ":", "secret">>))}

\* utils::extract_basic_auth: the username and password of a Basic header
\* whose payload decodes to user:pass, none otherwise.
extract_basic_auth(req) ==
    IF /\ req # None
       /\ req.scheme = "Basic"
       /\ req.payload.b64
       /\ Len(req.payload.text) = 3
       /\ req.payload.text[2] = ":"
    THEN [tag |-> "some", username |-> req.payload.text[1], password |-> req.payload.text[3]]
    ELSE None

\* A check of the username alone.
verify_credentials_UserOnly(map, username, password) == username \in DOMAIN map

\* BasicAuthProvider::verify_credentials.
verify_credentials(map, username, password) ==
    IF username \in DOMAIN map THEN map[username] = password ELSE FALSE

\* AuthUser::new(id, username) and the three AuthResult variants.
AuthUser(id, username) == [id |-> id, username |-> username]
Success(user) == [tag |-> "Success", user |-> user]
AuthFailed(msg) == [tag |-> "Failed", msg |-> msg]
NoAuth == [tag |-> "NoAuth"]

\* BasicAuthProvider::authenticate.
authenticate(map, req) ==
    LET creds == extract_basic_auth(req)
    IN IF creds # None
       THEN IF verify_credentials(map, creds.username, creds.password)
            THEN Success(AuthUser(creds.username, creds.username))
            ELSE AuthFailed("Invalid username or password")
       ELSE NoAuth

Authenticate(req) ==
    /\ auth_request' = [req |-> req]
    /\ auth_result' = authenticate(users, req)
    /\ UNCHANGED users
    /\ UNCHANGED <<coreVars, notAuth>>

AddUser(username, password) ==
    /\ users' = MapInsert(users, username, password)
    /\ auth_request' = None
    /\ auth_result' = None
    /\ UNCHANGED <<coreVars, notAuth>>

RemoveUser(username) ==
    /\ users' = MapRemove(users, username)
    /\ auth_request' = None
    /\ auth_result' = None
    /\ UNCHANGED <<coreVars, notAuth>>

InitAuth ==
    /\ NoLate
    /\ NoRouterTasks
    /\ NoSelection
    /\ InitManager
    /\ InitServer
    /\ routes = <<>>
    /\ add_result = None
    /\ find_result = None
    /\ NoProxy
    /\ NoConns
    /\ NoSessions
    /\ NoShutdown
    /\ users = <<>>
    /\ auth_request = None
    /\ auth_result = None

NextAuth ==
    \/ \E req \in AuthRequests : Authenticate(req)
    \/ \E u \in Usernames, p \in Passwords : AddUser(u, p)
    \/ \E u \in Usernames : RemoveUser(u)

SpecAuth == InitAuth /\ [][NextAuth]_vars

(***************************************************************************)
(* Router: add_route and find_route as tasks that share the RwLock         *)
(***************************************************************************)
Finders == {"f1", "f2"}

\* The routes add_route is given and the requests find_route is given.
LockRoutes ==
    [method : {"GET"},
     path : {<<Lit("users"), Lit("42")>>},
     path_regex : {NoRegex},
     priority : {100}]
    \cup
    [method : {"ANY"},
     path : {<<Lit("users"), Param("id")>>},
     path_regex : {NoRegex},
     priority : {10, 100}]
    \cup
    [method : {"ANY"},
     path : {<<Lit("users")>>},
     path_regex : {BadRegex},
     priority : {100}]
LockRequests == {[method |-> "GET", path |-> <<"users", "42">>],
                 [method |-> "POST", path |-> <<"users", "7">>]}

\* A read lock that is granted although a writer holds the lock.
CanRead_Unlocked(lock) == TRUE

\* RwLock::read is granted while no writer holds the lock.
CanRead(lock) == ~lock.writer

\* RwLock::write is granted while nobody holds the lock.
CanWrite(lock) == ~lock.writer /\ lock.readers = {}

\* The tuple add_route pushes: the route, its handler (id) and its regex.
RouteEntry(route, id) ==
    [method |-> route.method, path |-> route.path, path_regex |-> route.path_regex,
     priority |-> route.priority, regex |-> CompileRoute(route), id |-> id]

IdleTask == [pc |-> "idle"]

\* add_route up to the lock: the regex is compiled, and an error returns
\* before the lock is asked for.
AddRouteCall(route) ==
    /\ adder.pc = "idle"
    /\ Len(routes) < MaxRoutes
    /\ IF CompileRoute(route).valid
       THEN /\ adder' = [pc |-> "write", entry |-> RouteEntry(route, Len(routes) + 1),
                         route |-> route]
            /\ add_result' = None
       ELSE /\ adder' = adder
            /\ add_result' = [result |-> "err", route |-> route]
    /\ UNCHANGED <<routes, find_result, rwlock, finder>>
    /\ UNCHANGED <<pmVars, reqVars, histVars, nreg, proxyVars, proxyHist, connVars, notLock>>

\* Line 96: self.routes.write().await.
AcquireWrite ==
    /\ adder.pc = "write"
    /\ CanWrite(rwlock)
    /\ rwlock' = [rwlock EXCEPT !.writer = TRUE]
    /\ adder' = [adder EXCEPT !.pc = "push"]
    /\ UNCHANGED <<routerVars, finder>>
    /\ UNCHANGED <<pmVars, reqVars, histVars, nreg, proxyVars, proxyHist, connVars, notLock>>

\* Line 97: routes.push(..).
PushRoute ==
    /\ adder.pc = "push"
    /\ routes' = Append(routes, adder.entry)
    /\ adder' = [adder EXCEPT !.pc = "sort"]
    /\ UNCHANGED <<add_result, find_result, rwlock, finder>>
    /\ UNCHANGED <<pmVars, reqVars, histVars, nreg, proxyVars, proxyHist, connVars, notLock>>

\* Lines 100-103: the sort, and the guard dropped when the call returns.
SortRoutes ==
    /\ adder.pc = "sort"
    /\ routes' = sort_by_key(routes)
    /\ rwlock' = [rwlock EXCEPT !.writer = FALSE]
    /\ add_result' = [result |-> "ok", route |-> adder.route]
    /\ adder' = IdleTask
    /\ UNCHANGED <<find_result, finder>>
    /\ UNCHANGED <<pmVars, reqVars, histVars, nreg, proxyVars, proxyHist, connVars, notLock>>

\* A task calls find_route.
FindRouteCall(f, req) ==
    /\ finder[f].pc = "idle"
    /\ finder' = [finder EXCEPT ![f] = [pc |-> "read", request |-> req]]
    /\ UNCHANGED <<routerVars, rwlock, adder>>
    /\ UNCHANGED <<pmVars, reqVars, histVars, nreg, proxyVars, proxyHist, connVars, notLock>>

\* Line 107: self.routes.read().await.  The task notes the table it finds
\* (an observation, read by no guard).
AcquireRead(f) ==
    /\ finder[f].pc = "read"
    /\ CanRead(rwlock)
    /\ rwlock' = [rwlock EXCEPT !.readers = @ \cup {f}]
    /\ finder' = [finder EXCEPT ![f] = [pc |-> "iter", request |-> finder[f].request,
                                        i |-> 1, table |-> routes]]
    /\ UNCHANGED <<routerVars, adder>>
    /\ UNCHANGED <<pmVars, reqVars, histVars, nreg, proxyVars, proxyHist, connVars, notLock>>

\* Lines 111-135: one turn of the loop over routes.iter(), or its end; the
\* guard is dropped when the call returns.
ExamineRoute(f) ==
    /\ finder[f].pc = "iter"
    /\ LET fd == finder[f]
           Return(found) ==
               /\ finder' = [finder EXCEPT ![f] = IdleTask]
               /\ rwlock' = [rwlock EXCEPT !.readers = @ \ {f}]
               /\ find_result' = [request |-> fd.request, found |-> found,
                                  table |-> fd.table]
       IN IF fd.i > Len(routes)
          THEN Return(None)
          ELSE IF /\ MethodMatches(routes[fd.i], fd.request)
                  /\ PathMatch(routes[fd.i], fd.request).matches
               THEN Return([tag |-> "some", route |-> routes[fd.i],
                            params |-> PathMatch(routes[fd.i], fd.request).params])
               ELSE /\ finder' = [finder EXCEPT ![f].i = @ + 1]
                    /\ UNCHANGED <<rwlock, find_result>>
    /\ UNCHANGED <<routes, add_result, adder>>
    /\ UNCHANGED <<pmVars, reqVars, histVars, nreg, proxyVars, proxyHist, connVars, notLock>>

InitRouterLock ==
    /\ NoLate
    /\ InitManager
    /\ InitServer
    /\ routes = <<>>
    /\ add_result = None
    /\ find_result = None
    /\ NoProxy
    /\ NoConns
    /\ NoSessions
    /\ NoShutdown
    /\ NoProvider
    /\ NoSelection
    /\ rwlock = [writer |-> FALSE, readers |-> {}]
    /\ adder = IdleTask
    /\ finder = [f \in Finders |-> IdleTask]

NextRouterLock ==
    \/ \E route \in LockRoutes : AddRouteCall(route)
    \/ AcquireWrite
    \/ PushRoute
    \/ SortRoutes
    \/ \E f \in Finders, req \in LockRequests : FindRouteCall(f, req)
    \/ \E f \in Finders : AcquireRead(f)
    \/ \E f \in Finders : ExamineRoute(f)

SpecRouterLock == InitRouterLock /\ [][NextRouterLock]_vars

(***************************************************************************)
(* ProxyHandler::select_upstream under each LoadBalancingStrategy          *)
(***************************************************************************)
MaxCount == 2
MaxRandom == 3

LoadBalancingStrategy == {"RoundRobin", "LeastConnections", "WeightedRoundRobin", "Random"}

\* min_by_key over a list of upstream indices: the first of the elements
\* whose request count is least.
MinByRequestCount(ups, list) ==
    list[CHOOSE k \in 1..Len(list) :
            \A l \in 1..Len(list) :
                \/ ups[list[k]].request_count < ups[list[l]].request_count
                \/ ups[list[k]].request_count = ups[list[l]].request_count /\ k <= l]

\* A selection whose LeastConnections arm looks at every upstream.
SelectByStrategy_LeastOfAll(strat, ups, counter, random) ==
    IF HealthyUpstreams(ups) = <<>> THEN 0
    ELSE CASE strat = "RoundRobin" -> select_upstream(ups, counter)
           [] strat = "LeastConnections" ->
                MinByRequestCount(ups, [i \in 1..Len(ups) |-> i])
           [] strat = "WeightedRoundRobin" -> HealthyUpstreams(ups)[1]
           [] strat = "Random" ->
                HealthyUpstreams(ups)[(random % Len(HealthyUpstreams(ups))) + 1]

\* select_upstream, lines 89-121: the index of the upstream selected, 0 for
\* None.  random is the value rand::random gives the Random arm.
SelectByStrategy(strat, ups, counter, random) ==
    IF HealthyUpstreams(ups) = <<>> THEN 0
    ELSE CASE strat = "RoundRobin" -> select_upstream(ups, counter)
           [] strat = "LeastConnections" ->
                MinByRequestCount(ups, HealthyUpstreams(ups))
           [] strat = "WeightedRoundRobin" -> HealthyUpstreams(ups)[1]
           [] strat = "Random" ->
                HealthyUpstreams(ups)[(random % Len(HealthyUpstreams(ups))) + 1]

\* One call of select_upstream; only the RoundRobin arm moves the counter.
SelectCall(random) ==
    /\ current_upstream < MaxCalls
    /\ selection' = [chosen |-> SelectByStrategy(strategy, upstreams, current_upstream, random),
                     random |-> random]
    /\ current_upstream' =
          IF strategy = "RoundRobin" /\ HealthyUpstreams(upstreams) # <<>>
          THEN current_upstream + 1 ELSE current_upstream
    /\ UNCHANGED <<config, upstreams, hpc, proxy_request, attempt, last_error, upstream,
                   upstream_request, handler_result, proxyHist, strategy>>
    /\ UNCHANGED <<pmVars, routerVars, reqVars, histVars, nreg, connVars, notSel>>

\* Upstream::set_healthy, lines 35-37.
SetHealthy(i, healthy) ==
    /\ i \in 1..Len(upstreams)
    /\ upstreams[i].healthy # healthy
    /\ upstreams' = [upstreams EXCEPT ![i].healthy = healthy]
    /\ selection' = None
    /\ UNCHANGED <<config, current_upstream, hpc, proxy_request, attempt, last_error, upstream,
                   upstream_request, handler_result, proxyHist, strategy>>
    /\ UNCHANGED <<pmVars, routerVars, reqVars, histVars, nreg, connVars, notSel>>

\* Upstream::increment_requests, lines 39-41.
IncrementRequests(i) ==
    /\ i \in 1..Len(upstreams)
    /\ upstreams[i].request_count < MaxCount
    /\ upstreams' = [upstreams EXCEPT ![i].request_count = @ + 1]
    /\ selection' = None
    /\ UNCHANGED <<config, current_upstream, hpc, proxy_request, attempt, last_error, upstream,
                   upstream_request, handler_result, proxyHist, strategy>>
    /\ UNCHANGED <<pmVars, routerVars, reqVars, histVars, nreg, connVars, notSel>>

InitSelect ==
    /\ NoLate
    /\ InitManager
    /\ InitServer
    /\ routes = <<>>
    /\ add_result = None
    /\ find_result = None
    /\ config = [enabled |-> TRUE, retry_attempts |-> None]
    /\ upstreams \in UpstreamLists
    /\ InitHandle
    /\ NoConns
    /\ NoSessions
    /\ NoShutdown
    /\ NoProvider
    /\ NoRouterTasks
    /\ strategy \in LoadBalancingStrategy
    /\ selection = None

NextSelect ==
    \/ \E random \in 0..MaxRandom : SelectCall(random)
    \/ \E i \in 1..MaxUpstreams, healthy \in BOOLEAN : SetHealthy(i, healthy)
    \/ \E i \in 1..MaxUpstreams : IncrementRequests(i)

SpecSelect == InitSelect /\ [][NextSelect]_vars

(***************************************************************************)
(* ProxyHandler::start_health_checks: the task and its rounds              *)
(***************************************************************************)
\* What client.get(&health_url).send().await comes to: a response with its
\* status, or a transport error.
CheckOutcomes == {[kind |-> "response", status |-> 200],
                  [kind |-> "response", status |-> 302],
                  [kind |-> "response", status |-> 500],
                  [kind |-> "failed", status |-> 0]}

\* A test that takes every status below 400 for a success.
is_success_Below400(status) == status \in 100..399

\* StatusCode::is_success: 200 to 299.
is_success(status) == status \in 200..299

\* The arm the match of lines 260-269 takes.
CheckPasses(outcome) == outcome.kind = "response" /\ is_success(outcome.status)

HealthFlags(ups) == [i \in 1..Len(ups) |-> ups[i].healthy]

\* start_health_checks: nothing is spawned for an empty upstream list.
StartHealthChecks ==
    /\ health_task.pc = "off"
    /\ health_task' = IF upstreams = <<>> THEN [pc |-> "returned"] ELSE [pc |-> "tick"]
    /\ UNCHANGED <<pmVars, routerVars, reqVars, histVars, nreg, proxyVars, proxyHist, connVars,
                   notHealth>>

\* interval.tick().await: a round begins.  The task notes the flags it
\* finds (an observation, read by no guard).
IntervalTick ==
    /\ health_task.pc = "tick"
    /\ health_task' = [pc |-> "check", i |-> 1, before |-> HealthFlags(upstreams),
                       round |-> <<>>]
    /\ UNCHANGED <<pmVars, routerVars, reqVars, histVars, nreg, proxyVars, proxyHist, connVars,
                   notHealth>>

\* One turn of `for upstream in &upstreams`: an upstream with a health-check
\* path is sent a GET and marked by the match on the outcome.
CheckUpstream(outcome) ==
    /\ health_task.pc = "check"
    /\ health_task.i <= Len(upstreams)
    /\ LET i == health_task.i
       IN IF HasHealthCheck(upstreams[i])
          THEN /\ upstreams' = [upstreams EXCEPT ![i].healthy = CheckPasses(outcome)]
               /\ health_task' = [health_task EXCEPT !.i = i + 1,
                                     !.round = Append(@, outcome)]
          ELSE /\ outcome = [kind |-> "failed", status |-> 0]
               /\ upstreams' = upstreams
               /\ health_task' = [health_task EXCEPT !.i = i + 1,
                                     !.round = Append(@, [kind |-> "skipped", status |-> 0])]
    /\ UNCHANGED <<config, current_upstream, hpc, proxy_request, attempt, last_error, upstream,
                   upstream_request, handler_result, proxyHist>>
    /\ UNCHANGED <<pmVars, routerVars, reqVars, histVars, nreg, connVars, notHealth>>

\* The for loop has ended; the task goes back to the interval.
EndRound ==
    /\ health_task.pc = "check"
    /\ health_task.i > Len(upstreams)
    /\ health_task' = [health_task EXCEPT !.pc = "tick"]
    /\ UNCHANGED <<pmVars, routerVars, reqVars, histVars, nreg, proxyVars, proxyHist, connVars,
                   notHealth>>

\* The upstream lists the task may find: a flag may have been lowered by a
\* timeout or by an earlier round.
MarkedUpstreamLists ==
    UNION {[1..n -> [health_check : BOOLEAN, healthy : BOOLEAN, request_count : {0}]] :
              n \in 0..MaxUpstreams}

InitHealth ==
    /\ InitManager
    /\ InitServer
    /\ routes = <<>>
    /\ add_result = None
    /\ find_result = None
    /\ config = [enabled |-> TRUE, retry_attempts |-> None]
    /\ upstreams \in MarkedUpstreamLists
    /\ InitHandle
    /\ NoConns
    /\ NoSessions
    /\ NoShutdown
    /\ NoProvider
    /\ NoRouterTasks
    /\ NoSelection
    /\ NoStoreTasks
    /\ NoBuilder
    /\ NoMock
    /\ health_task = [pc |-> "off"]

NextHealth ==
    \/ StartHealthChecks
    \/ IntervalTick
    \/ \E outcome \in CheckOutcomes : CheckUpstream(outcome)
    \/ EndRound

SpecHealth == InitHealth /\ [][NextHealth]_vars

(***************************************************************************)
(* FileSessionStore: get, save and delete as tasks on one store            *)
(*                                                                         *)
(* Each call is followed lock by lock.  The map is read and written under  *)
(* its RwLock; save_to_file holds the read lock from the serialization to  *)
(* the clearing of the dirty flag.  The write of the temporary file and    *)
(* its rename are one step that replaces the sessions file.                *)
(***************************************************************************)
StoreTasks == {"t1", "t2"}
StoreCalls == [op : {"get", "save", "delete"}, id : SessionIds]

\* A load whose assignment keeps the entries the map has got meanwhile.
LoadedMap_Merged(map, content) ==
    [x \in DOMAIN map \cup DOMAIN content |->
        IF x \in DOMAIN map THEN map[x] ELSE content[x]]

\* load_from_file, lines 40-41: `*store_sessions = sessions`.
LoadedMap(map, content) == content

\* The write lock of the map is granted while nobody reads it.
MapWritable == store_readers = {}

\* Where a call goes once the load is over or was not needed.
AfterLoad(call) == IF call.op = "get" THEN "lookup" ELSE "modify"

StoreIdle == [pc |-> "idle"]

\* A task calls get, save or delete.
StoreCall(t, call) ==
    /\ store_task[t].pc = "idle"
    /\ store_task' = [store_task EXCEPT ![t] = [pc |-> "empty", call |-> call]]
    /\ UNCHANGED <<sessions, file, dirty, store_readers>>
    /\ UNCHANGED <<coreVars, notFile>>

\* `if self.sessions.read().await.is_empty()`: lines 97, 107, 124.
CheckEmpty(t) ==
    /\ store_task[t].pc = "empty"
    /\ store_task' = [store_task EXCEPT ![t].pc =
                         IF sessions = <<>> THEN "read_file" ELSE AfterLoad(store_task[t].call)]
    /\ UNCHANGED <<sessions, file, dirty, store_readers>>
    /\ UNCHANGED <<coreVars, notFile>>

\* load_from_file, lines 28-38: no file, or the file read and parsed.
ReadFile(t) ==
    /\ store_task[t].pc = "read_file"
    /\ store_task' = [store_task EXCEPT ![t] =
                         IF file = None
                         THEN [pc |-> AfterLoad(@.call), call |-> @.call]
                         ELSE [pc |-> "assign", call |-> @.call, content |-> file.val]]
    /\ UNCHANGED <<sessions, file, dirty, store_readers>>
    /\ UNCHANGED <<coreVars, notFile>>

\* load_from_file, lines 40-41: the map is replaced under the write lock.
AssignMap(t) ==
    /\ store_task[t].pc = "assign"
    /\ MapWritable
    /\ sessions' = LoadedMap(sessions, store_task[t].content)
    /\ store_task' = [store_task EXCEPT ![t] =
                         [pc |-> AfterLoad(@.call), call |-> @.call]]
    /\ UNCHANGED <<file, dirty, store_readers>>
    /\ UNCHANGED <<coreVars, notFile>>

\* get, lines 101-102: the lookup, and the return.
Lookup(t) ==
    /\ store_task[t].pc = "lookup"
    /\ store_task' = [store_task EXCEPT ![t] =
                         [pc |-> "returned", call |-> @.call,
                          found |-> @.call.id \in DOMAIN sessions]]
    /\ UNCHANGED <<sessions, file, dirty, store_readers>>
    /\ UNCHANGED <<coreVars, notFile>>

\* save, lines 111-114, and delete, lines 128-131: the insert or the remove
\* under the write lock.
ModifyMap(t) ==
    /\ store_task[t].pc = "modify"
    /\ MapWritable
    /\ LET call == store_task[t].call
       IN sessions' = IF call.op = "save"
                      THEN MapInsert(sessions, call.id, SessionNew(call.id, 1, 0))
                      ELSE MapRemove(sessions, call.id)
    /\ store_task' = [store_task EXCEPT ![t].pc = "mark"]
    /\ UNCHANGED <<file, dirty, store_readers>>
    /\ UNCHANGED <<coreVars, notFile>>

\* mark_dirty, lines 68-71.
MarkDirty(t) ==
    /\ store_task[t].pc = "mark"
    /\ dirty' = TRUE
    /\ store_task' = [store_task EXCEPT ![t].pc = "check"]
    /\ UNCHANGED <<sessions, file, store_readers>>
    /\ UNCHANGED <<coreVars, notFile>>

\* save_if_dirty, lines 74-80: the flag is read; a clean store is not saved.
CheckDirty(t) ==
    /\ store_task[t].pc = "check"
    /\ store_task' = [store_task EXCEPT ![t] =
                         IF dirty THEN [pc |-> "serialize", call |-> @.call]
                         ELSE [pc |-> "returned", call |-> @.call, skipped |-> TRUE]]
    /\ UNCHANGED <<sessions, file, dirty, store_readers>>
    /\ UNCHANGED <<coreVars, notFile>>

\* save_to_file, lines 48-49: the read lock is taken and the map serialized.
Serialize(t) ==
    /\ store_task[t].pc = "serialize"
    /\ store_readers' = store_readers \cup {t}
    /\ store_task' = [store_task EXCEPT ![t] =
                         [pc |-> "write", call |-> @.call, content |-> sessions]]
    /\ UNCHANGED <<sessions, file, dirty>>
    /\ UNCHANGED <<coreVars, notFile>>

\* save_to_file, lines 57-59: the temporary file written and renamed.
WriteFile(t) ==
    /\ store_task[t].pc = "write"
    /\ file' = Some(store_task[t].content)
    /\ store_task' = [store_task EXCEPT ![t].pc = "clean"]
    /\ UNCHANGED <<sessions, dirty, store_readers>>
    /\ UNCHANGED <<coreVars, notFile>>

\* save_to_file, lines 61-64: the flag cleared; the read lock is dropped as
\* the call returns.
ClearDirty(t) ==
    /\ store_task[t].pc = "clean"
    /\ dirty' = FALSE
    /\ store_readers' = store_readers \ {t}
    /\ store_task' = [store_task EXCEPT ![t] =
                         [pc |-> "returned", call |-> @.call, skipped |-> FALSE]]
    /\ UNCHANGED <<sessions, file>>
    /\ UNCHANGED <<coreVars, notFile>>

InitFile ==
    /\ InitManager
    /\ InitServer
    /\ routes = <<>>
    /\ add_result = None
    /\ find_result = None
    /\ NoProxy
    /\ NoConns
    /\ NoShutdown
    /\ NoProvider
    /\ NoRouterTasks
    /\ NoSelection
    /\ NoHealthTask
    /\ NoBuilder
    /\ NoMock
    /\ timeout = 1
    /\ store_kind = "file"
    /\ sessions = <<>>
    /\ file \in InitialFiles
    /\ dirty = FALSE
    /\ now = 0
    /\ pending = None
    /\ fresh = None
    /\ got = None
    /\ swept = None
    /\ store_task = [t \in StoreTasks |-> StoreIdle]
    /\ store_readers = {}

NextFile ==
    \/ \E t \in StoreTasks, call \in StoreCalls : StoreCall(t, call)
    \/ \E t \in StoreTasks : CheckEmpty(t)
    \/ \E t \in StoreTasks : ReadFile(t)
    \/ \E t \in StoreTasks : AssignMap(t)
    \/ \E t \in StoreTasks : Lookup(t)
    \/ \E t \in StoreTasks : ModifyMap(t)
    \/ \E t \in StoreTasks : MarkDirty(t)
    \/ \E t \in StoreTasks : CheckDirty(t)
    \/ \E t \in StoreTasks : Serialize(t)
    \/ \E t \in StoreTasks : WriteFile(t)
    \/ \E t \in StoreTasks : ClearDirty(t)

SpecFile == InitFile /\ [][NextFile]_vars

(***************************************************************************)
(* RouterBuilder: routes collected and applied to a router                 *)
(***************************************************************************)
\* The routes handed to a builder: literal and parameterized ones, one with
\* a custom pattern that does not compile and one whose parameter name is
\* used twice.
BuilderRoutes == {r \in RouteInputs : r.method # "GET" /\ r.priority # 10}
                 \cup {r \in RouteInputs : ~CompileRoute(r).valid}

\* The router a builder is applied to: empty, or with a route of its own.
BuilderTables ==
    {<<>>, add_route(<<>>, [method |-> "GET", path |-> <<Lit("users"), Lit("42")>>,
                            path_regex |-> NoRegex, priority |-> 10], 1).routes}

\* RouterBuilder::new: no routes; build_into not begun.
NewBuilder == [routes |-> <<>>, pc |-> "building", next |-> 1, result |-> None, before |-> <<>>]

\* build_into, line 242: the ? returns the error of add_route at once.
BuildAfterError(b) == [b EXCEPT !.pc = "returned", !.result = Some("err")]

\* RouterBuilder::route (and get, post, ...): the route is pushed.
BuilderRoute(route) ==
    /\ builder.pc = "building"
    /\ Len(builder.routes) < MaxRoutes
    /\ builder' = [builder EXCEPT !.routes = Append(@, route)]
    /\ UNCHANGED <<routerVars, pmVars, reqVars, histVars, nreg, proxyVars, proxyHist, connVars,
                   notBuild>>

\* build_into is called: the builder is consumed.
BuildInto ==
    /\ builder.pc = "building"
    /\ builder' = [builder EXCEPT !.pc = "adding", !.before = routes]
    /\ UNCHANGED <<routerVars, pmVars, reqVars, histVars, nreg, proxyVars, proxyHist, connVars,
                   notBuild>>

\* One turn of the loop of build_into: router.add_route(route, handler).await?
AddNext ==
    /\ builder.pc = "adding"
    /\ builder.next <= Len(builder.routes)
    /\ LET r == add_route(routes, builder.routes[builder.next], Len(routes) + 1)
       IN  /\ routes' = r.routes
           /\ builder' = IF r.result = "err"
                         THEN BuildAfterError(builder)
                         ELSE [builder EXCEPT !.next = @ + 1]
    /\ UNCHANGED <<add_result, find_result, pmVars, reqVars, histVars, nreg, proxyVars, proxyHist,
                   connVars, notBuild>>

\* The loop is over: Ok(()).
BuildReturn ==
    /\ builder.pc = "adding"
    /\ builder.next > Len(builder.routes)
    /\ builder' = [builder EXCEPT !.pc = "returned", !.result = Some("ok")]
    /\ UNCHANGED <<routerVars, pmVars, reqVars, histVars, nreg, proxyVars, proxyHist, connVars,
                   notBuild>>

InitBuilder ==
    /\ InitManager
    /\ InitServer
    /\ routes \in BuilderTables
    /\ add_result = None
    /\ find_result = None
    /\ NoProxy
    /\ NoConns
    /\ NoSessions
    /\ NoShutdown
    /\ NoProvider
    /\ NoRouterTasks
    /\ NoSelection
    /\ NoHealthTask
    /\ NoStoreTasks
    /\ NoMock
    /\ builder = NewBuilder

NextBuilder ==
    \/ \E route \in BuilderRoutes : BuilderRoute(route)
    \/ BuildInto
    \/ AddNext
    \/ BuildReturn

SpecBuilder == InitBuilder /\ [][NextBuilder]_vars

(***************************************************************************)
(* MockRouter: built-in routes, configured routes, first match             *)
(***************************************************************************)
MaxScenarios == 2

MockResponse(status, headers, body) == [status |-> status, headers |-> headers, body |-> body]

\* add_default_routes: GET /health, GET / and GET /nox/handshake, pushed in
\* this order.
DefaultRoutes ==
    <<[path_pattern |-> "/health", method |-> "GET",
       response |-> MockResponse(200, None, "OK")],
      [path_pattern |-> "/", method |-> "GET",
       response |-> MockResponse(200, Some({<<"X-Server", "NOX">>}), "NOX Server - Mock Ready")],
      [path_pattern |-> "/nox/handshake", method |-> "GET",
       response |-> MockResponse(200,
                        Some({<<"X-Server", "NOX">>, <<"X-Handshake", "kick-nox-v1">>}),
                        "handshake-json")]>>

add_default_routes(table) == table \o DefaultRoutes

\* MockRouter::new
MockRouterNew == add_default_routes(<<>>)

\* route.method.parse::<Method>(): a token is taken as it is written (case
\* kept); a string that is not a token is an error.
BadMethods == {"", "G T"}
ParseMethod(m) == IF m \in BadMethods THEN None ELSE Some(m)

\* MockRouter::add_route: pushed at the end, if the method parses.
mock_add_route(table, route) ==
    IF ParseMethod(route.method) = None
    THEN table
    ELSE Append(table, [path_pattern |-> route.path,
                        method |-> ParseMethod(route.method).val,
                        response |-> route.response])

RECURSIVE AddRoutes(_, _)
AddRoutes(table, rs) ==
    IF rs = <<>> THEN table ELSE AddRoutes(mock_add_route(table, Head(rs)), Tail(rs))

RECURSIVE AddScenarios(_, _)
AddScenarios(table, scenarios) ==
    IF scenarios = <<>> THEN table
    ELSE AddScenarios(AddRoutes(table, Head(scenarios).routes), Tail(scenarios))

\* A from_config that loads the configuration first and the built-in routes
\* after it.
from_config_DefaultsLast(cfg) == add_default_routes(AddScenarios(<<>>, cfg.scenarios))

\* MockRouter::from_config: new(), then every route of every scenario in
\* the order of the configuration.
from_config(cfg) == AddScenarios(MockRouterNew, cfg.scenarios)

matches_route(route, path, method) ==
    IF route.method # method THEN FALSE ELSE route.path_pattern = path

\* StatusCode::from_u16(status).unwrap_or(StatusCode::OK)
MockStatus(status) == IF status \in 100..999 THEN status ELSE 200

create_response(mock_response) ==
    [status |-> MockStatus(mock_response.status),
     headers |-> IF mock_response.headers = None THEN {} ELSE mock_response.headers.val,
     body |-> mock_response.body]

mock_not_found_response == [status |-> 404, headers |-> {}, body |-> "Not Found"]

\* The routes of the table that match, by position.
MockMatches(table, req) ==
    {i \in 1..Len(table) : matches_route(table[i], req.path, req.method)}

\* handle_request: the first route in the list that matches answers.
mock_handle_request(table, req) ==
    IF MockMatches(table, req) = {} THEN mock_not_found_response
    ELSE create_response(
             table[CHOOSE i \in MockMatches(table, req) :
                       \A j \in MockMatches(table, req) : i <= j].response)

BuiltinPaths == {"/health", "/", "/nox/handshake"}
MockPaths == BuiltinPaths \cup {"/api"}

\* The routes of a configuration: ones on the built-in paths, one on a path
\* of its own, one on another method with a status that is not a status
\* code, one whose method does not parse.
MockRouteInputs ==
    [path : MockPaths, method : {"GET"},
     response : {MockResponse(201, Some({<<"X-Mock", "1">>}), "configured")}]
    \cup
    [path : {"/nox/handshake"}, method : {"POST", "G T"},
     response : {MockResponse(99, None, "posted")}]

RECURSIVE SeqsUpTo(_, _)
SeqsUpTo(S, n) ==
    IF n = 0 THEN {<<>>}
    ELSE SeqsUpTo(S, n - 1) \cup {Append(q, x) : q \in SeqsUpTo(S, n - 1), x \in S}

\* A scenario without routes, or with one.
MockScenarios == [routes : {<<>>} \cup {<<r>> : r \in MockRouteInputs}]
MockConfigs == [scenarios : SeqsUpTo(MockScenarios, MaxScenarios)]
MockRequests == [method : {"GET", "POST"}, path : MockPaths \cup {"/other"}]

\* MockRouter::from_config(cfg)
FromConfig(cfg) ==
    /\ mock_routes = <<>>
    /\ mock_routes' = from_config(cfg)
    /\ UNCHANGED <<mock_reply, coreVars, notMock>>

\* MockRouter::handle_request on the router constructed.
MockHandleRequest(req) ==
    /\ mock_routes # <<>>
    /\ mock_reply' = [request |-> req, response |-> mock_handle_request(mock_routes, req)]
    /\ UNCHANGED <<mock_routes, coreVars, notMock>>

InitMock ==
    /\ InitManager
    /\ InitServer
    /\ routes = <<>>
    /\ add_result = None
    /\ find_result = None
    /\ NoProxy
    /\ NoConns
    /\ NoSessions
    /\ NoShutdown
    /\ NoProvider
    /\ NoRouterTasks
    /\ NoSelection
    /\ NoHealthTask
    /\ NoStoreTasks
    /\ NoBuilder
    /\ NoMock

NextMock ==
    \/ \E cfg \in MockConfigs : FromConfig(cfg)
    \/ \E req \in MockRequests : MockHandleRequest(req)

SpecMock == InitMock /\ [][NextMock]_vars

(***************************************************************************)
(* Properties of the request pipeline (Spec)                               *)
(***************************************************************************)
Range(f) == {f[i] : i \in DOMAIN f}
IsPrefix(s, t) == Len(s) <= Len(t) /\ SubSeq(t, 1, Len(s)) = s
Last(s) == s[Len(s)]
Without(s, x) == SelectSeq(s, LAMBDA y : y # x)

InRequest == request # None
Returned == InRequest /\ pc \in {"returned", "sent"}

\* The hook that is executing or was executed last, and its plugin list.
LastHook == Last(stages)
InHookHistory == stages # <<>> /\ LastHook \in PluginHook
\* The entries of the executing hook's list the loop has dealt with.
Passed == IF exec.live THEN exec.idx - 1 ELSE exec.idx

RECURSIVE EnabledNames(_)
EnabledNames(list) ==
    IF list = <<>> THEN <<>>
    ELSE LET rest == EnabledNames(SubSeq(list, 1, Len(list) - 1))
         IN IF is_plugin_enabled(Last(list).name) THEN Append(rest, Last(list).name)
            ELSE rest

\* The stages a request goes through when nothing ends it early: the handler
\* is invoked when route resolution found a route.
StagesFor(match) == IF match = None THEN Without(Pipeline, "handler") ELSE Pipeline

PluginEnded ==
    \/ result.tag = "ok" /\ result.resp.src = "plugin"
    \/ result.tag = "err" /\ result.err.src = "plugin"
HandlerFailed == result.tag = "err" /\ result.err.src = "handler"

\* C1 as stated: every request that no plugin short-circuits or fails has
\* run all eight stages, the handler invocation among them, in pipeline
\* order when handle_request returns.
C1_AsStated ==
    (Returned /\ ~PluginEnded) => stages = Pipeline

\* C1 (amended): at every moment of a request the stages begun are a prefix
\* of the pipeline order, the handler invocation being there exactly when a
\* route matched; a hook executes only as the stage begun last; and when
\* handle_request returns from a request that no plugin short-circuited or
\* failed and whose handler did not yield an error, every stage has run
\* exactly once, in that order.
C1_StageOrder ==
    InRequest =>
        /\ IsPrefix(stages, StagesFor(route_match))
        /\ exec # NoExec => (stages # <<>> /\ exec.hook = LastHook /\ pc = exec.hook)
        /\ (Returned /\ ~PluginEnded /\ ~HandlerFailed) => stages = StagesFor(route_match)

C1_Witness ==
    /\ pc = "sent"
    /\ stages = Pipeline
    /\ sent = HandlerResponse
    /\ invoked # <<>>

ResponseHooks == {"PreRequest", "PostRoute", "PreHandler"}
IgnoringHooks == {"PostHandler", "PreResponse", "PostResponse", "OnStartup", "OnShutdown"}

\* Where control is once the hook executed last has returned Ok without a
\* response: at the next stage, or, after PostResponse, at the return of
\* handle_request and the reply.
AfterHookOk ==
    /\ exec = NoExec
    /\ \/ pc = NextStage(LastHook)
       \/ LastHook = "PostResponse" /\ pc \in {"returned", "sent"}
    /\ IF LastHook = "PostResponse" THEN result = Ok(response) ELSE result = None

\* C2: when a plugin returns Response(r) in PreRequest, PostRoute or
\* PreHandler, it is the last plugin invoked in that hook execution, that
\* hook is the last stage of the request (the handler is not invoked),
\* handle_request returns Ok(r) and r is what is sent.
C2_ShortCircuit ==
    (InRequest /\ InHookHistory /\ LastHook \in ResponseHooks) =>
        \A j \in 1..Len(results) :
            results[j] = "Response" =>
                /\ j = Len(results)
                /\ Len(invoked) = j
                /\ exec = NoExec
                /\ pc \in {"returned", "sent"}
                /\ "handler" \notin Range(stages)
                /\ result = Ok(PluginResponse(LastHook, invoked[j]))
                /\ pc = "sent" => sent = PluginResponse(LastHook, invoked[j])

C2_Witness ==
    /\ pc = "sent"
    /\ LastHook = "PreHandler"
    /\ route_match # None
    /\ Len(hook_plugins["PreHandler"]) = 2
    /\ \A i \in 1..2 : is_plugin_enabled(hook_plugins["PreHandler"][i].name)
    /\ invoked = <<hook_plugins["PreHandler"][1].name>>
    /\ results = <<"Response">>
    /\ sent = PluginResponse("PreHandler", invoked[1])

\* C3: when a plugin returns Response(r) in PostHandler, PreResponse,
\* PostResponse, OnStartup or OnShutdown, r is dropped and the loop goes on
\* to the next entry as after Continue: the hook execution is still running,
\* or it has returned Ok with every enabled plugin after that one invoked
\* unless one of them ended the loop; the response of the handler stage is
\* unchanged, and it is what a request that returns Ok sends.
C3_ResponseIgnored ==
    /\ (InHookHistory /\ LastHook \in IgnoringHooks) =>
         \A j \in 1..Len(results) :
            results[j] = "Response" =>
                /\ result # Ok(PluginResponse(LastHook, invoked[j]))
                /\ sent # PluginResponse(LastHook, invoked[j])
                /\ j = Len(results) =>
                      IF exec # NoExec
                      THEN exec.hook = LastHook /\ exec.live /\ Passed >= j
                      ELSE AfterHookOk
                /\ (exec # NoExec /\ ~InLoop /\ exec.live) =>
                      invoked = EnabledNames(hook_plugins[LastHook])
    /\ (InRequest /\ "PostHandler" \in Range(stages)) =>
         /\ response.src \in {"handler", "notfound"}
         /\ result.tag = "ok" => result.resp = response
         /\ (pc = "sent" /\ result.tag = "ok") => sent = response

C3_Witness ==
    /\ pc = "PreResponse"
    /\ exec = NoExec
    /\ LastHook = "PostHandler"
    /\ results = <<"Response", "Continue">>
    /\ response = HandlerResponse

\* C4: when a plugin returns Stop, it is the last plugin invoked in that
\* hook execution, and the execution returns Ok without a response: control
\* goes to the stage that follows the hook.
C4_Stop ==
    InHookHistory =>
        \A j \in 1..Len(results) :
            results[j] = "Stop" =>
                /\ j = Len(results)
                /\ Len(invoked) = j
                /\ IF exec # NoExec
                   THEN exec.hook = LastHook /\ ~exec.live /\ pc = LastHook
                   ELSE AfterHookOk

C4_Witness ==
    /\ InHookHistory
    /\ exec = NoExec
    /\ Len(hook_plugins[LastHook]) = 2
    /\ \A i \in 1..2 : is_plugin_enabled(hook_plugins[LastHook][i].name)
    /\ hook_plugins[LastHook][1].priority < hook_plugins[LastHook][2].priority
    /\ invoked = <<hook_plugins[LastHook][1].name>>
    /\ results = <<"Stop">>
    /\ pc = NextStage(LastHook)

\* What ends a request before its last stage: a plugin's Error or failure, a
\* plugin's Response, or the handler's error.
EndedEarlyByResult ==
    \/ /\ LastHook \in RequestHooks
       /\ results # <<>>
       /\ \/ Last(results) \in {"Error", "Err"} /\ result.tag = "err"
          \/ Last(results) = "Response" /\ result.tag = "ok" /\ result.resp.src = "plugin"
    \/ LastHook = "handler" /\ HandlerFailed

\* C5: a request in which a plugin returned Stop still runs every stage
\* after that hook, the handler among them when a route matched: when
\* handle_request returns, either all stages have run or the request was
\* ended by a plugin's Error or Response or by the handler's error in a
\* stage after that hook; Stop itself never ends it.
C5_StopContinues ==
    (InRequest /\ stopSeen # "none") =>
        /\ stopSeen \in Range(stages)
        /\ Returned =>
              \/ stages = StagesFor(route_match) /\ result = Ok(response)
              \/ /\ EndedEarlyByResult
                 /\ stopSeen # LastHook

C5_Witness ==
    /\ pc = "sent"
    /\ stopSeen = "PreRequest"
    /\ stages = Pipeline
    /\ sent = HandlerResponse

\* C6: when a plugin returns Error(e) or its callback fails with e in a
\* hook of a request, it is the last plugin invoked, that hook is the last
\* stage of the request, handle_request returns Err(e), and the reply is the
\* rendering of e.
C6_ErrorAborts ==
    (InRequest /\ InHookHistory /\ LastHook \in RequestHooks) =>
        \A j \in 1..Len(results) :
            results[j] \in {"Error", "Err"} =>
                /\ j = Len(results)
                /\ Len(invoked) = j
                /\ exec = NoExec
                /\ pc \in {"returned", "sent"}
                /\ result.tag = "err"
                /\ Origin(result.err) = PluginError(LastHook, invoked[j])
                /\ pc = "sent" => sent = create_error_response(result.err)

C6_Witness ==
    /\ pc = "sent"
    /\ LastHook = "PreRequest"
    /\ Len(hook_plugins["PreRequest"]) = 2
    /\ \A i \in 1..2 : is_plugin_enabled(hook_plugins["PreRequest"][i].name)
    /\ results = <<"Error">>
    /\ sent.src = "error"
    /\ sent.from = "plugin"
    /\ sent.hook = "PreRequest"
    /\ sent.name = hook_plugins["PreRequest"][1].name

\* C7 as stated: when handle_request returned an error, the OnError hook has
\* been executed for the request by the time the error response is sent.
C7_AsStated ==
    (pc = "sent" /\ result.tag = "err" /\ EnabledNames(hook_plugins["OnError"]) # <<>>)
        => "OnError" \in Range(stages)

\* A list is in ascending priority order, entries of equal priority in the
\* order of their registration.
SortedStable(list) ==
    \A i, j \in 1..Len(list) :
        i < j => \/ list[i].priority < list[j].priority
                 \/ list[i].priority = list[j].priority /\ list[i].reg < list[j].reg

\* C8: every hook's list is sorted by ascending priority, equal priorities
\* in registration order, and a hook execution has invoked exactly the
\* enabled plugins among the entries it has passed, in list order.
C8_PriorityOrder ==
    /\ \A h \in PluginHook : SortedStable(hook_plugins[h])
    /\ exec # NoExec =>
         /\ Passed \in 0..Len(hook_plugins[exec.hook])
         /\ invoked = EnabledNames(SubSeq(hook_plugins[exec.hook], 1, Passed))
         /\ Len(results) = Len(invoked)

C8_Witness ==
    /\ exec # NoExec
    /\ Len(hook_plugins[exec.hook]) = 2
    /\ hook_plugins[exec.hook][1].priority = hook_plugins[exec.hook][2].priority
    /\ hook_plugins[exec.hook][1].name # hook_plugins[exec.hook][2].name
    /\ invoked = <<hook_plugins[exec.hook][1].name, hook_plugins[exec.hook][2].name>>

\* C9: a hook execution invokes no plugin that the side table has as
\* disabled, and every registered plugin, enabled or not, keeps its entry
\* (name, priority) in the list of each hook it handles; a step that changes
\* the side table without registering a plugin (set_plugin_enabled) changes
\* no list, so the entry is where it was when the plugin is enabled again.
C9_Inv ==
    /\ exec # NoExec =>
          \A j \in 1..Len(invoked) :
              invoked[j] \in DOMAIN enabled_plugins /\ enabled_plugins[invoked[j]]
    /\ \A n \in DOMAIN plugins : \A h \in plugins[n].hooks :
          \E i \in 1..Len(hook_plugins[h]) :
              /\ hook_plugins[h][i].name = n
              /\ hook_plugins[h][i].priority = plugins[n].priority

C9_Disabled ==
    /\ []C9_Inv
    /\ [][(nreg' = nreg /\ enabled_plugins' # enabled_plugins)
            => hook_plugins' = hook_plugins]_vars

C9_Witness ==
    /\ exec # NoExec
    /\ Len(hook_plugins[exec.hook]) = 2
    /\ ~enabled_plugins[hook_plugins[exec.hook][1].name]
    /\ invoked = <<hook_plugins[exec.hook][2].name>>

\* The request was answered after route resolution found no route, and no
\* plugin short-circuited or failed: every stage but the handler has run.
UnroutedAnswered ==
    /\ pc = "sent"
    /\ route_match = None
    /\ stages = StagesFor(None)
    /\ result.tag = "ok"

\* C18 as stated: such a request is answered with status 404 and a JSON
\* error body whose status field is 404.
C18_AsStated ==
    UnroutedAnswered =>
        /\ sent.status = 404
        /\ sent.body = ErrorBody("Not Found", 404)

\* C18: such a request, when no PostHandler or PreResponse callback has
\* rewritten the response, is answered with status 404 and a JSON error
\* body whose status field is 404.
C18_NotFound ==
    (UnroutedAnswered /\ ~sent.touched) =>
        /\ sent.status = 404
        /\ sent.body = ErrorBody("Not Found", 404)

C18_Witness ==
    /\ UnroutedAnswered
    /\ request = [method |-> "POST", path |-> <<"users", "42">>]
    /\ find_route(routes, request) = None
    /\ invoked # <<>>
    /\ sent = create_not_found_response

(***************************************************************************)
(* Properties of the router (SpecRouter)                                   *)
(***************************************************************************)
\* The registered routes a request is compatible with: the route has no
\* method or the request's, and its path pattern matches the request's path.
Candidates(req) ==
    {e \in Range(routes) : MethodMatches(e, req) /\ PathMatch(e, req).matches}

\* Among them, the one of lowest priority value, registered first.
BestCandidate(req) ==
    CHOOSE e \in Candidates(req) :
        \A f \in Candidates(req) :
            \/ e.priority < f.priority
            \/ e.priority = f.priority /\ e.id <= f.id

\* C10: find_route returns the matching route of lowest priority value, the
\* one registered first among those of equal priority, and none only when
\* no route matches.
C10_FirstMatch ==
    find_result # None =>
        IF Candidates(find_result.request) = {}
        THEN find_result.found = None
        ELSE /\ find_result.found # None
             /\ find_result.found.route = BestCandidate(find_result.request)

C10_Witness ==
    /\ find_result # None
    /\ find_result.found # None
    /\ \E e, f \in Candidates(find_result.request) :
          /\ e.id < f.id
          /\ e.priority = f.priority
          /\ find_result.found.route = e
    /\ \E g \in Candidates(find_result.request) :
          /\ g.priority > find_result.found.route.priority
          /\ g.id < find_result.found.route.id

\* The path binds the pattern segment by segment: the two have as many
\* segments, a literal equals its segment and a {param} stands for one
\* segment that is not empty.  (A segment holds no '/' by construction.)
BindsWhole(pattern, path) ==
    /\ Len(path) = Len(pattern)
    /\ \A i \in 1..Len(pattern) :
          IF pattern[i].kind = "lit" THEN path[i] = pattern[i].text
          ELSE path[i] # ""

\* Every parameter name of the pattern mapped to its segment of the path.
Binding(pattern, path) ==
    [n \in ParamNames(pattern) |->
        path[CHOOSE i \in 1..Len(pattern) : pattern[i] = Param(n)]]

\* What C11 asks of one registered route, for every request path.
ParamContract(e) ==
    \A req \in Requests :
        PathMatch(e, req).matches =>
            /\ BindsWhole(e.path, req.path)
            /\ PathMatch(e, req).params = Binding(e.path, req.path)

\* C11 as stated: every registered route whose pattern contains {param}
\* segments matches a path only if the whole path matches the pattern with
\* each {param} bound to one non-empty segment, and reports every parameter.
C11_AsStated ==
    \A i \in 1..Len(routes) :
        contains_brace(routes[i].path) => ParamContract(routes[i])

\* C11: a registered route whose pattern contains {param} segments and that
\* carries no custom regex matches a path only if the whole path matches the
\* pattern with each {param} bound to exactly one non-empty segment, and
\* find_route reports every parameter name mapped to that segment.
C11_ParamMatch ==
    /\ \A i \in 1..Len(routes) :
          (contains_brace(routes[i].path) /\ routes[i].path_regex = NoRegex)
              => ParamContract(routes[i])
    /\ (/\ find_result # None
        /\ find_result.found # None
        /\ contains_brace(find_result.found.route.path)
        /\ find_result.found.route.path_regex = NoRegex)
          => /\ BindsWhole(find_result.found.route.path, find_result.request.path)
             /\ find_result.found.params =
                    Binding(find_result.found.route.path, find_result.request.path)

C11_Witness ==
    /\ find_result # None
    /\ find_result.request.path = <<"users", "42">>
    /\ find_result.found # None
    /\ find_result.found.route.path = <<Lit("users"), Param("id")>>
    /\ find_result.found.route.path_regex = NoRegex
    /\ find_result.found.params = [n \in {"id"} |-> "42"]
    /\ ~PathMatch(find_result.found.route,
                  [method |-> "GET", path |-> <<"users", "42", "extra">>]).matches

\* C12: a failed add_route returns the error to its caller (it fails exactly
\* when the route's pattern does not compile) and leaves the route table as
\* it was: no route added, removed or reordered.
C12_NoPartialRegistration ==
    /\ [](add_result # None =>
            (add_result.result = "err" <=> ~CompileRoute(add_result.route).valid))
    /\ [][(add_result' # None /\ add_result'.result = "err") => routes' = routes]_vars

C12_Witness ==
    /\ add_result # None
    /\ add_result.result = "err"
    /\ ~add_result.route.path_regex.valid
    /\ Len(routes) = 2

(***************************************************************************)
(* Properties of the proxy handler (SpecProxy, SpecProxyFair)              *)
(***************************************************************************)
RequestCounts == [i \in 1..Len(upstreams) |-> upstreams[i].request_count]
NoneHealthy == \A i \in 1..Len(upstreams) : ~upstreams[i].healthy

\* A step of handle that selects: it leaves the select position.
SelectStep == hpc = "select" /\ hpc' # "select"

\* C13: when select_upstream finds every upstream unhealthy, handle returns
\* a ServiceUnavailable error at once: no request count changes, no backoff
\* delay is taken, and once it has returned no forwarding attempt follows.
C13_NoHealthyUpstream ==
    /\ [][(SelectStep /\ NoneHealthy) =>
            /\ hpc' = "done"
            /\ handler_result'.tag = "Error"
            /\ handler_result'.err.kind = "ServiceUnavailable"
            /\ RequestCounts' = RequestCounts
            /\ forwards' = forwards
            /\ sleeps' = sleeps]_vars
    /\ [][hpc = "done" =>
            /\ hpc' \in {"done", "idle"}
            /\ RequestCounts' = RequestCounts
            /\ sleeps' \in {sleeps, 0}]_vars

C13_Witness ==
    /\ hpc = "done"
    /\ Len(upstreams) = 2
    /\ NoneHealthy
    /\ handler_result.tag = "Error"
    /\ handler_result.err = NoHealthyUpstreams
    /\ selects = 1
    /\ forwards = 0
    /\ sleeps = 0

\* The healthy upstream that follows i in list order, cyclically.
NextHealthy(i) ==
    LET H == HealthyUpstreams(upstreams)
        k == CHOOSE j \in 1..Len(H) : H[j] = i
    IN H[(k % Len(H)) + 1]

\* C14: while no health flag changes, select_upstream goes through the
\* healthy upstreams cyclically in list order (with two healthy upstreams
\* two consecutive selections differ), and the numbers of selections of any
\* two healthy upstreams differ by at most 1.
C14_RoundRobin ==
    /\ \A i, j \in Range(HealthyUpstreams(upstreams)) : picks[i] - picks[j] <= 1
    /\ \A i \in 1..Len(upstreams) : ~upstreams[i].healthy => picks[i] = 0
    /\ Len(last_picks) = 2 =>
          /\ last_picks[2] = NextHealthy(last_picks[1])
          /\ Len(HealthyUpstreams(upstreams)) = 2 => last_picks[1] # last_picks[2]

C14_Witness ==
    /\ Len(upstreams) = 2
    /\ \A i \in 1..2 : upstreams[i].healthy /\ picks[i] = 2
    /\ last_picks = <<1, 2>>

\* C15: handle makes at most retry_attempts + 1 forwarding attempts, each
\* after a selection of its own, and it always returns a response or an
\* error.
C15_BoundedAttempts ==
    /\ [](forwards <= max_retries + 1)
    /\ [](IF hpc = "forward" THEN selects = forwards + 1
          ELSE selects \in {forwards, forwards + 1})
    /\ [](hpc = "done" => handler_result.tag \in {"Response", "Error", "NotFound"})
    /\ (hpc = "select" ~> hpc = "done")

C15_Witness ==
    /\ hpc = "done"
    /\ config.retry_attempts = None
    /\ forwards = 4
    /\ selects = 4
    /\ handler_result.tag = "Error"

AllForwardsFailed == hpc = "done" /\ handler_result.tag = "Error" /\ forwards >= 1

\* C16 as stated: if every forwarding attempt of a request failed, handle
\* returns the error of the last failed attempt.
C16_AsStated ==
    AllForwardsFailed => handler_result.err = observed

\* C16: if every forwarding attempt of a request failed and every selection
\* of the request found a healthy upstream, handle returns the error of the
\* last failed attempt; the generic error is returned only when no error
\* was recorded.
C16_LastError ==
    /\ (AllForwardsFailed /\ selects = forwards) =>
          /\ handler_result.err = observed
          /\ handler_result.err = last_error
    /\ (hpc = "done" /\ handler_result.tag = "Error"
            /\ handler_result.err = AllAttemptsFailed) => last_error = None

C16_Witness ==
    /\ AllForwardsFailed
    /\ forwards = 2
    /\ selects = 2
    /\ handler_result.err.kind = "Other"
    /\ \E i \in 1..Len(upstreams) : ~upstreams[i].healthy /\ ~upstreams[i].health_check

\* C17 as stated: a header is copied from the client request to the upstream
\* request, and from the upstream response to the client response, exactly
\* when its lower-cased name is not a hop-by-hop name; the upstream's status
\* and body are passed through unchanged.
C17_AsStated ==
    /\ upstream_request # None =>
          \A h \in proxy_request.headers :
              h \in upstream_request.headers <=>
                  ~is_hop_by_hop_header(to_lowercase(h.name))
    /\ (hpc = "done" /\ handler_result.tag = "Response") =>
          /\ \A h \in observed.headers :
                h \in handler_result.resp.headers <=>
                    ~is_hop_by_hop_header(to_lowercase(h.name))
          /\ handler_result.resp.status = observed.status
          /\ handler_result.resp.body = observed.body

(***************************************************************************)
(* Properties of the connection layer (SpecConn)                           *)
(***************************************************************************)
\* The status the spec's table gives an error variant.
StatusTable(kind) ==
    IF kind = "NotFound" THEN 404
    ELSE IF kind = "BadRequest" THEN 400
    ELSE IF kind \in {"Unauthorized", "Auth"} THEN 401
    ELSE IF kind = "Forbidden" THEN 403
    ELSE IF kind = "Timeout" THEN 408
    ELSE IF kind = "ServiceUnavailable" THEN 503
    ELSE 500

Failed(c) == conns[c].result # None /\ conns[c].result.tag = "err"

\* C19: every error handle_request returns to the connection layer is
\* answered with a response whose status, and the status field of whose
\* body, is the one the table gives the error's variant.
C19_StatusMapping ==
    \A c \in 1..Len(conns) :
        Failed(c) =>
            /\ conns[c].reply # None
            /\ conns[c].reply.status = StatusTable(conns[c].result.err.kind)
            /\ conns[c].reply.body.status = StatusTable(conns[c].result.err.kind)

C19_Witness ==
    /\ Failed(1) /\ conns[1].result.err.kind = "Auth" /\ conns[1].reply.status = 401
    /\ Failed(2) /\ conns[2].result.err.kind = "Plugin" /\ conns[2].reply.status = 500

\* A step in which the request of connection c ends with an error.
FailsOn(c) ==
    /\ conns[c].task = "handling"
    /\ conns'[c].served = conns[c].served + 1
    /\ conns'[c].result.tag = "err"

\* C20: when a request ends with an error, the error response is its reply,
\* the service loop of its connection goes on waiting for the next request,
\* no other connection's task is touched, and the accept loop, which never
\* ends, is left as it is.
C20_ErrorIsolation ==
    /\ [][\A c \in 1..Len(conns) :
            FailsOn(c) =>
                /\ conns'[c].reply = create_error_response(conns'[c].result.err)
                /\ conns'[c].task = "idle"
                /\ \A d \in 1..Len(conns) : d # c => conns'[d] = conns[d]
                /\ accept_loop' = accept_loop]_vars
    /\ [][accept_loop = "listening" => accept_loop' = "listening"]_vars

C20_Witness ==
    /\ conns[1].failures = 1
    /\ conns[1].served = 2
    /\ conns[1].result.tag = "ok"
    /\ conns[1].reply = HandlerResponse
    /\ conns[2].task = "handling"
    /\ conns[2].failures = 1

(***************************************************************************)
(* Properties of the session manager (SpecSession)                         *)
(***************************************************************************)
\* get_session has just returned from a call that followed create_session
\* at once, for the id create_session returned.
RoundTrip == got # None /\ got.roundtrip

\* The id is in no copy of the store's data: the map, and the file of a
\* file store.
Absent(id) ==
    /\ id \notin DOMAIN sessions
    /\ (store_kind = "file" /\ file # None) => id \notin DOMAIN file.val

\* The session is what the store holds under its id.
Stored(s) ==
    /\ s.id \in DOMAIN sessions
    /\ sessions[s.id] = s
    /\ store_kind = "file" => (file # None /\ s.id \in DOMAIN file.val /\ file.val[s.id] = s)

C22_GetSession ==
    (got # None /\ got.found # None) =>
        IF got.checked > got.found.val.expires_at
        THEN /\ got.result = None
             /\ Absent(got.id)
        ELSE /\ got.result # None
             /\ got.result.val.id = got.id
             /\ got.result.val.created_at = got.found.val.created_at
             /\ got.result.val.expires_at = now + timeout
             /\ Stored(got.result.val)

\* Both cases: a session found at the moment of its expiry is refreshed,
\* and one found after it is deleted.
C22_Witness ==
    /\ got # None
    /\ got.found # None
    /\ got.checked = got.found.val.expires_at
    /\ got.result # None
    /\ got.result.val.expires_at = 3
    /\ timeout = 1
    /\ \E x \in SessionIds \ DOMAIN sessions : x # got.id

C22_WitnessExpired ==
    /\ got # None
    /\ got.found # None
    /\ got.checked > got.found.val.expires_at
    /\ got.result = None
    /\ store_kind = "file"
    /\ file = Some(sessions)
    /\ sessions # <<>>

C24_AsStated ==
    /\ [][shutdown_runs' # shutdown_runs => accept_loop # "listening"]_vars
    /\ [][shutdown_runs > 0 => \A c \in 1..Len(conns) :
                                  conns[c].task = "none" => conns'[c].task = "none"]_vars
    /\ [](shutdown_runs <= 1)
    /\ [](mpc \in {"abort", "return", "exited"} => shutdown_runs = 1)

\* C25 as stated: no request that was in flight when the shutdown signal
\* arrived is cut off: its connection task is not killed in the middle of
\* it.
C25_AsStated ==
    \A r \in inflight :
        ~(conns[r[1]].task = "killed" /\ conns[r[1]].served + 1 = r[2])

(***************************************************************************)
(* Properties of the Basic auth provider (SpecAuth)                        *)
(***************************************************************************)
\* The header of the request is Basic with the base64 encoding of u:p.
Carries(req, u, p) == req = Authorization("Basic", Base64(<<u, ":", p>>))
\* The request carries credentials that decode.
Decodable(req) == \E u \in Usernames \cup {"nobody"}, p \in Passwords \cup {"wrong"} :
                      Carries(req, u, p)
\* The request carries credentials the user map holds.
Matching(req) == \E u \in DOMAIN users : Carries(req, u, users[u])

\* C26: authenticate returns Success exactly when the request carries
\* decodable Basic credentials whose username is in the user map with that
\* password, and then the user's id and username are the username; it
\* returns Failed when decodable credentials do not match the map, and
\* NoAuth when the request has no Authorization header.
C26_BasicAuth ==
    auth_result # None =>
        LET req == auth_request.req
        IN /\ auth_result.tag = "Success" <=> Matching(req)
           /\ auth_result.tag = "Success" =>
                 /\ Carries(req, auth_result.user.id, users[auth_result.user.id])
                 /\ auth_result.user.username = auth_result.user.id
           /\ (Decodable(req) /\ ~Matching(req)) => auth_result.tag = "Failed"
           /\ req = None => auth_result = NoAuth

C26_Witness ==
    /\ DOMAIN users = Usernames
    /\ users["admin"] = "secret"
    /\ auth_request = [req |-> Authorization("Basic", Base64(<<"admin", ":", "secret">>))]
    /\ auth_result = Success(AuthUser("admin", "admin"))

C26_WitnessFailed ==
    /\ DOMAIN users = {"admin"}
    /\ users["admin"] = "secret"
    /\ auth_request = [req |-> Authorization("Basic", Base64(<<"admin", ":", "password">>))]
    /\ auth_result.tag = "Failed"

(***************************************************************************)
(* The hook field of the context a callback receives                       *)
(***************************************************************************)

\* C27: whenever a plugin callback for a per-request hook H is invoked, the
\* hook field of the context passed to it equals H: while the execution of
\* hook H runs, the context it was given and lends to each callback has H
\* in its hook field.
C27_ContextHook ==
    (exec # NoExec /\ exec.hook \in RequestHooks) => context.hook = exec.hook

\* A PostHandler callback has been invoked with a context whose hook field
\* is PostHandler, after the field held three other values.
C27_Witness ==
    /\ exec # NoExec
    /\ exec.hook = "PostHandler"
    /\ invoked # <<>>
    /\ context.hook = "PostHandler"
    /\ stages = <<"PreRequest", "route", "PostRoute", "PreHandler", "handler", "PostHandler">>

(***************************************************************************)
(* find_route beside add_route                                             *)
(***************************************************************************)

\* A table in ascending priority order.
ByPriority(table) ==
    \A i, j \in 1..Len(table) : i < j => table[i].priority <= table[j].priority

\* C28: a find_route that runs beside add_route sees the table entirely
\* before or entirely after each add_route: while it goes through the table
\* no add_route is between its push and the end of its sort, the table is
\* the one it found when it took the lock and is in priority order, and
\* what it returns is the lookup on that one table.
C28_Isolation ==
    /\ \A f \in DOMAIN finder :
          finder[f].pc = "iter" =>
             /\ adder.pc \notin {"push", "sort"}
             /\ routes = finder[f].table
             /\ ByPriority(routes)
    /\ find_result # None =>
             /\ ByPriority(find_result.table)
             /\ find_result.found = find_route(find_result.table, find_result.request)

\* The new route has been appended and the table is not yet sorted, while a
\* find_route call waits for the lock.
C28_Witness ==
    /\ adder.pc = "sort"
    /\ ~ByPriority(routes)
    /\ \E f \in DOMAIN finder : finder[f].pc = "read"

\* A find_route is half way through the table while an add_route whose
\* route belongs before the last entry waits for the lock.
C28_WitnessReader ==
    /\ adder.pc = "write"
    /\ routes # <<>>
    /\ adder.entry.priority < routes[Len(routes)].priority
    /\ \E f \in DOMAIN finder : finder[f].pc = "iter" /\ finder[f].i = 2

(***************************************************************************)
(* select_upstream and the health flags                                    *)
(***************************************************************************)

\* C29: under every strategy select_upstream returns an upstream whose
\* flag is healthy when it is called, and None exactly when no upstream's
\* flag is.
C29_SelectsHealthy ==
    selection # None =>
        /\ selection.chosen = 0 <=> (\A i \in 1..Len(upstreams) : ~upstreams[i].healthy)
        /\ selection.chosen # 0 =>
              /\ selection.chosen \in 1..Len(upstreams)
              /\ upstreams[selection.chosen].healthy

\* LeastConnections has passed over the unhealthy upstream of least count
\* and returned the healthy one.
C29_Witness ==
    /\ strategy = "LeastConnections"
    /\ Len(upstreams) = 2
    /\ ~upstreams[1].healthy
    /\ upstreams[1].request_count < upstreams[2].request_count
    /\ selection # None
    /\ selection.chosen = 2

\* Random has found no healthy upstream among two.
C29_WitnessNone ==
    /\ strategy = "Random"
    /\ Len(upstreams) = 2
    /\ selection # None
    /\ selection.chosen = 0

(***************************************************************************)
(* A timeout and the health flag                                           *)
(***************************************************************************)

\* C30: when a forwarding attempt ends in a Timeout failure, its upstream
\* is marked unhealthy before the next attempt of the request selects an
\* upstream: the flag is down when the attempt has ended, and it stays down
\* until that selection unless a health check of the upstream raises it.
C30_TimeoutMarks ==
    /\ [][(hpc = "forward" /\ hpc' = "sleep" /\ last_error'.kind = "Timeout")
          => ~upstreams'[upstream].healthy]_vars
    /\ []((/\ hpc = "sleep" \/ (hpc = "select" /\ attempt > 0)
           /\ last_error.kind = "Timeout"
           /\ ~upstreams[upstream].health_check)
          => ~upstreams[upstream].healthy)

\* The first attempt timed out; the second is about to select with the
\* first upstream marked unhealthy and the other one healthy.
C30_Witness ==
    /\ hpc = "select"
    /\ attempt = 1
    /\ last_error.kind = "Timeout"
    /\ Len(upstreams) = 2
    /\ ~upstreams[upstream].healthy
    /\ upstreams[3 - upstream].healthy

(***************************************************************************)
(* A round of the health-check task                                        *)
(***************************************************************************)

\* C31: in each round of the health-check loop every upstream with a
\* health-check path is marked healthy if its check returns a 2xx status
\* and unhealthy otherwise, a transport error included; an upstream without
\* a path is left as the round found it; a finished round has covered every
\* upstream.
C31_HealthRound ==
    health_task.pc \in {"check", "tick"} /\ "round" \in DOMAIN health_task =>
        /\ \A k \in 1..Len(health_task.round) :
              IF upstreams[k].health_check
              THEN upstreams[k].healthy =
                      (/\ health_task.round[k].kind = "response"
                       /\ health_task.round[k].status >= 200
                       /\ health_task.round[k].status < 300)
              ELSE upstreams[k].healthy = health_task.before[k]
        /\ health_task.pc = "tick" => Len(health_task.round) = Len(upstreams)

\* A round has ended: the first upstream, healthy before, answered 500 and
\* is unhealthy; the second has no path and is as it was, unhealthy.
C31_Witness ==
    /\ health_task.pc = "tick"
    /\ "round" \in DOMAIN health_task
    /\ Len(upstreams) = 2
    /\ health_task.before = <<TRUE, FALSE>>
    /\ upstreams[1].health_check /\ ~upstreams[2].health_check
    /\ health_task.round[1] = [kind |-> "response", status |-> 500]
    /\ ~upstreams[1].healthy /\ ~upstreams[2].healthy

\* A transport error has lowered the flag of a healthy upstream.
C31_WitnessTransport ==
    /\ "round" \in DOMAIN health_task
    /\ Len(health_task.round) >= 1
    /\ health_task.round[1].kind = "failed"
    /\ health_task.before[1]
    /\ ~upstreams[1].healthy

(***************************************************************************)
(* The sweep and the strict expiry check                                   *)
(***************************************************************************)

\* The sessions of a map that Session::is_expired does not classify as
\* expired at a time.
NotExpired(m, at) == [x \in {y \in DOMAIN m : ~is_expired(m[y], at)} |-> m[x]]

\* C32: cleanup_expired removes exactly the sessions the strict check
\* now > expires_at classifies as expired, leaves every other session as it
\* is, and returns the number of sessions it removed.
C32_AsStated ==
    [][CleanupExpired =>
          /\ sessions' = NotExpired(Loaded, now)
          /\ swept'.count = Cardinality(DOMAIN Loaded) - Cardinality(DOMAIN sessions')]_vars

(***************************************************************************)
(* A plugin name registered more than once                                 *)
(***************************************************************************)

\* C33: in one hook execution the callback registered under a plugin name
\* is invoked at most once, also after register_plugin has been called more
\* than once with that name.
C33_AsStated ==
    \A i, j \in 1..Len(invoked) : i # j => invoked[i] # invoked[j]

(***************************************************************************)
(* A handler error and the later hooks                                     *)
(***************************************************************************)

\* C34: when the matched route's handler yields an error, handle_request
\* returns that error at once: the handler is the last stage of the
\* request and no PostHandler, PreResponse or PostResponse plugin is
\* invoked for it.
C34_HandlerError ==
    (InRequest /\ result # None /\ result.tag = "err" /\ result.err.src = "handler") =>
        /\ Last(stages) = "handler"
        /\ Range(stages) \cap {"PostHandler", "PreResponse", "PostResponse"} = {}
        /\ invoked = <<>>
        /\ exec = NoExec
        /\ pc \in {"returned", "sent"}

\* The handler's error has been answered while an enabled plugin is
\* registered for PostHandler and another for PostResponse.
C34_Witness ==
    /\ pc = "sent"
    /\ result # None /\ result.tag = "err" /\ result.err.src = "handler"
    /\ stages = <<"PreRequest", "route", "PostRoute", "PreHandler", "handler">>
    /\ EnabledNames(hook_plugins["PostHandler"]) # <<>>
    /\ EnabledNames(hook_plugins["PostResponse"]) # <<>>
    /\ sent = create_error_response(result.err)

(***************************************************************************)
(* An upstream without a health check, once marked unhealthy               *)
(***************************************************************************)

\* Every upstream is without a health-check path and marked unhealthy.
AllDead ==
    /\ upstreams # <<>>
    /\ \A i \in 1..Len(upstreams) : ~upstreams[i].health_check /\ ~upstreams[i].healthy

\* C35: an upstream without a health-check path that has been marked
\* unhealthy after a Timeout is never marked healthy again; once every
\* upstream is in that state, every later call of handle returns
\* ServiceUnavailable.  A call that ends having forwarded nothing, with
\* every upstream in that state, is a call that began in it.
C35_DeadForever ==
    /\ [][\A i \in 1..Len(upstreams) :
             (~upstreams[i].health_check /\ ~upstreams[i].healthy)
                => (Len(upstreams') = Len(upstreams) /\ ~upstreams'[i].healthy)]_vars
    /\ []((AllDead /\ hpc = "done" /\ forwards = 0) =>
             /\ handler_result.tag = "Error"
             /\ handler_result.err.kind = "ServiceUnavailable"
             /\ selects = 1)

\* Two upstreams without a health check have both timed out in earlier
\* calls; a later call has returned ServiceUnavailable.
C35_Witness ==
    /\ AllDead
    /\ Len(upstreams) = 2
    /\ upstreams[1].request_count > 0
    /\ upstreams[2].request_count > 0
    /\ hpc = "done"
    /\ forwards = 0
    /\ handler_result = [tag |-> "Error", err |-> NoHealthyUpstreams]

(***************************************************************************)
(* delete_session beside a get_session in flight                           *)
(***************************************************************************)

\* C36: delete_session(id) is final: once it has returned the store holds no
\* session with that id, also when a get_session(id) that read the session
\* before the delete is still in progress; when that call returns it has not
\* brought the session back.
C36_AsStated ==
    (got # None /\ got.deleted) => got.id \notin DOMAIN Loaded

(***************************************************************************)
(* Calls that run side by side on a FileSessionStore                       *)
(***************************************************************************)

InFile(id) == file # None /\ id \in DOMAIN file.val
ReturnedCall(t, op) ==
    /\ t \in DOMAIN store_task
    /\ store_task[t].pc = "returned"
    /\ store_task[t].call.op = op

\* C37: when two save calls for different sessions have run side by side
\* and both have returned, the sessions file holds both sessions; the dirty
\* flag another call cleared has not lost the later save its write.
C37_AsStated ==
    (/\ ReturnedCall("t1", "save")
     /\ ReturnedCall("t2", "save")
     /\ store_task["t1"].call.id # store_task["t2"].call.id)
        => InFile(store_task["t1"].call.id) /\ InFile(store_task["t2"].call.id)

\* C38: a session removed by delete is not brought back by the reload of
\* the file that a call makes on an empty map: when delete(id) has returned
\* and no save of that id runs beside it, neither the map nor the sessions
\* file holds id.
C38_AsStated ==
    \A t \in DOMAIN store_task, id \in SessionIds :
        (/\ ReturnedCall(t, "delete")
         /\ store_task[t].call.id = id
         /\ \A u \in DOMAIN store_task \ {t} :
               store_task[u].pc # "idle" => store_task[u].call # [op |-> "save", id |-> id])
            => id \notin DOMAIN sessions /\ ~InFile(id)


\* The routes of the builder found in the router: those registered since
\* build_into was called.
BuilderRoutesRegistered == Len(routes) - Len(builder.before)

\* C39: as stated, if adding any one of the builder's routes fails,
\* build_into returns the error and none of the builder's routes is left
\* registered in the router.
C39_AsStated ==
    (builder # None /\ builder.pc = "returned" /\ builder.result = Some("err"))
        => routes = builder.before

\* What build_into does: when it returns an error the routes before the
\* first one that failed are registered, in the order of the builder within
\* equal priorities, and no later one.
C39_Prefix ==
    (builder # None /\ builder.pc = "returned" /\ builder.result = Some("err"))
        => /\ BuilderRoutesRegistered = builder.next - 1
           /\ ~CompileRoute(builder.routes[builder.next]).valid
           /\ \A i \in 1..(builder.next - 1) : CompileRoute(builder.routes[i]).valid


\* Whether the configuration loaded holds a route of the method and path.
Configured(method, path) ==
    \E i \in (Len(DefaultRoutes) + 1)..Len(mock_routes) :
        mock_routes[i].method = method /\ mock_routes[i].path_pattern = path

\* C40: GET /nox/handshake, GET /health and GET / are answered with the
\* built-in 200 response whatever the configuration holds: the response is
\* the one the router without configuration gives.
C40_BuiltinFirst ==
    (/\ mock_reply # None
     /\ mock_reply.request.method = "GET"
     /\ mock_reply.request.path \in BuiltinPaths)
        => /\ mock_reply.response = mock_handle_request(MockRouterNew, mock_reply.request)
           /\ mock_reply.response.status = 200
           /\ mock_reply.response.body # "configured"

\* The handshake is answered by a router whose configuration holds a route
\* GET /nox/handshake of its own.
C40_Witness ==
    /\ mock_reply # None
    /\ mock_reply.request = [method |-> "GET", path |-> "/nox/handshake"]
    /\ Configured("GET", "/nox/handshake")
    /\ mock_reply.response.body = "handshake-json"

\* A configured route on a path of its own is served.
C40_WitnessConfigured ==
    /\ mock_reply # None
    /\ mock_reply.request = [method |-> "GET", path |-> "/api"]
    /\ mock_reply.response.body = "configured"

====
